---- MODULE Spec2Model ----
(***************************************************************************)
(* ChillBuddy front end: the progress / achievement tracking engine.       *)
(*                                                                         *)
(* The module models the JavaScript objects of src/frontend/js as state    *)
(* machines: the progress dashboard (progress-dashboard.js), the mood      *)
(* tracker (mood-tracker.js), the journal (journal.js), the exercises      *)
(* system (exercises.js) and the local-storage readers.  Every handler is  *)
(* one action.  Presentational fields (names, icons, colours, tips) are    *)
(* left out of the records; every field a handler reads in a condition is  *)
(* kept.                                                                   *)
(***************************************************************************)
EXTENDS Integers, Sequences, FiniteSets, TLC

VARIABLES
    \* --- progress-dashboard.js : ProgressTrackingDashboard ---
    progressData,       \* badgeId -> item record; the empty function before the first load
    userStats,          \* this.userStats
    updateTimer,        \* TRUE while the auto-update interval is installed
    badgeEarnedShown,   \* badgeId -> number of showNotification(.., 'badge-earned') calls
    reachedTarget,      \* badgeId -> an update has moved current from below target up to target
    initialLoadPending, \* the loadProgressData() started by the constructor has not settled
    \* --- window globals read by the feature objects ---
    windowAchievementNotifications,  \* window.achievementNotifications is an instance
    windowRewardPreview,             \* window.rewardPreview is an instance
    \* --- shared by the feature objects ---
    uncaught,           \* names of the handlers that have thrown an exception nothing caught
    achievementShown,   \* achievement id -> number of showNotification(.., 'achievement') calls
    rewardPreviewProgress, \* feature -> the current / total last given to rewardPreview.updateProgress
    localStorage,       \* key -> stored text
    today,              \* the calendar day (a day number)
    \* --- mood-tracker.js : MoodTracker ---
    moodHistory,        \* this.moodHistory, newest first
    currentMood,        \* this.currentMood: a mood value, or NoMood for null
    moodNextId,         \* the next entry id (Date.now())
    \* --- exercises.js : ExercisesSystem ---
    currentCategory,    \* this.currentCategory
    currentExercise,    \* this.currentExercise: an exercise id, or NoExercise for null
    isActive,           \* this.isActive
    timer,              \* this.timer: an interval id, or NoTimer for null
    liveIntervals,      \* ids of the setInterval countdowns that have not been cleared
    nextIntervalId,     \* the id the next setInterval returns
    timeRemaining,      \* this.timeRemaining
    totalDuration,      \* this.totalDuration
    exerciseHistory,    \* this.exerciseHistory, newest first
    exerciseNextId,     \* the next completion id (Date.now())
    modalDisplayed,     \* #exerciseModal is shown
    modalBodyIntact,    \* .exercise-modal-body still holds the elements of createExerciseModal
    completeBtnShown,   \* #completeBtn is visible
    pendingCloses,      \* number of pending setTimeout(closeExerciseModal, 3000)
    countdownCancelled, \* pauseTimer/resetTimer/completeExercise/closeExerciseModal ran since startTimer
    sessionRecords,     \* completion records added since startExercise last showed the modal
    phaseTimeouts,      \* number of pending setTimeout callbacks of breathingCycle's runPhase
    \* --- the readers of local storage ---
    journalEntries,     \* JournalSystem.entries as loadEntries returned it
    favoriteResources,  \* ResourcesManager.favoriteResources
    resourceHistory,    \* ResourcesManager.resourceHistory
    apiUsage,           \* what getApiCallCount last returned
    constructed,        \* names of the constructors / accessors that have returned
    \* --- the streak functions applied to an entry list ---
    streakDays,         \* the calendar days of the entries, newest first
    moodStreak,         \* calculateStreak() of it, NotComputed before the call
    journalStreak,      \* getStreak() of it, NotComputed before the call
    shortDays,          \* the calendar days of 23 hours in the browser's time zone
    \* --- journal.js : JournalSystem (this.entries is journalEntries above) ---
    currentEntry,       \* this.currentEntry: an entry record, or NoEntry for null
    currentEntryStored, \* this.currentEntry is the very object held in this.entries
    isEditing,          \* this.isEditing
    editorShown,        \* #journalEditor is displayed
    textarea,           \* #entryTextarea value: a text (its number of words), 0 when blank
    journalNextId,      \* the next entry id (Date.now())
    \* --- the aggregate functions applied to stored input ---
    aggValues,          \* the numeric field (mood value, word count) of the entries
    averageMood,        \* calculateAverageMood() of it: <<>> before the call
    averageWords,       \* getAverageWordsPerEntry() of it: <<>> before the call
    consecutiveDays,    \* calculateConsecutiveDays(entries): <<>> before the call
    timelineHasStreakMaster, \* AchievementTimeline.achievements holds 'streak-master'
    timelineStreak,     \* what updateStats last wrote to #current-streak: <<>> before
    \* --- chat.js : getChillBuddyResponse ---
    chatReply,          \* the reply the fetch of the last call met
    chatFetches,        \* number of fetch() calls the last call made
    chatResult,         \* what the last call resolved to
    chatCalls,          \* number of calls made
    \* --- the async loaders: loadProgressData, loadBadgeData ---
    loadPc,             \* call -> position of that loadProgressData() call
    loadReply,          \* call -> the replies its fetches met
    galleryBadges,      \* BadgeGallery.badges
    \* --- achievement-notifications.js : AchievementNotificationSystem ---
    notifications,      \* this.notifications: notification ids, oldest first
    containerNodes,     \* the notification elements in this.container
    hideTimers,         \* notifications with a pending setTimeout(.., 400) of removeNotification
    autoTimers,         \* notifications with a pending setTimeout(.., duration)
    notifyNextId,       \* the id of the next notification element
    \* --- sidebar.js : the chat page (handleSendMessage, showBotResponse) ---
    chatInput,          \* #chat-input value: "" when blank, else the kind of text it holds
    typing,             \* kind -> number of showBotResponse calls whose typing indicator is shown
    bubbles,            \* kind -> number of displayed bot messages that carry a regenerate button
    requestsToday,      \* number of showBotResponse calls made on the calendar day `today'
    \* --- sidebar.js : SidebarManager and the New Chat button ---
    chatHistory,        \* this.chatHistory, as saveCurrentChat orders it
    storedChats,        \* the text under localStorage 'chillbuddy_chat_history'
    currentChatId,      \* this.currentChatId: CurrentId for 'current', t for 'chat_' + t
    displayed,          \* the .message elements of .chat-messages: their content, NoContent when none
    nextContent,        \* the content the conversation has after the next message
    sidebarNow,         \* Date.now()
    headerFirst,        \* the header script's click handler was registered before SidebarManager's
    lastCall,           \* the call of the sidebar that led to this state, with what it was given
    \* --- the page load: the scripts that create the global instances ---
    readyState,         \* document.readyState
    domContentLoaded,   \* the DOMContentLoaded event has been dispatched
    scriptsRun,         \* the scripts whose top-level code has run
    listeners,          \* the DOMContentLoaded listeners added and not yet called
    letInstances,       \* the top-level let bindings that hold a constructed instance
    dashboardContainer, \* the page has #progress-dashboard-container
    windowProgressDashboard \* window.progressDashboard is an instance

progressVars == <<progressData, userStats, updateTimer, badgeEarnedShown, reachedTarget,
                  initialLoadPending>>
windowVars == <<windowAchievementNotifications, windowRewardPreview>>
sharedVars == <<uncaught, achievementShown, rewardPreviewProgress, localStorage, today>>
moodVars == <<moodHistory, currentMood, moodNextId>>
exerciseVars == <<currentCategory, currentExercise, isActive, timer, liveIntervals,
                  nextIntervalId, timeRemaining, totalDuration, exerciseHistory,
                  exerciseNextId, modalDisplayed, modalBodyIntact, completeBtnShown,
                  pendingCloses, countdownCancelled, sessionRecords, phaseTimeouts>>
readerVars == <<journalEntries, favoriteResources, resourceHistory, apiUsage, constructed>>
streakVars == <<streakDays, moodStreak, journalStreak>>
journalVars == <<currentEntry, currentEntryStored, isEditing, editorShown, textarea,
                 journalNextId>>

aggVars == <<aggValues, averageMood, averageWords, consecutiveDays,
             timelineHasStreakMaster, timelineStreak>>
chatVars == <<chatReply, chatFetches, chatResult, chatCalls>>
loadVars == <<loadPc, loadReply, galleryBadges>>
notifyVars == <<notifications, containerNodes, hideTimers, autoTimers, notifyNextId>>
clockVars == <<shortDays>>
uiVars == <<chatInput, typing, bubbles, requestsToday>>
sidebarVars == <<chatHistory, storedChats, currentChatId, displayed, nextContent, sidebarNow,
                 headerFirst, lastCall>>
pageVars == <<readyState, domContentLoaded, scriptsRun, listeners, letInstances,
              dashboardContainer, windowProgressDashboard>>

\* the objects the handlers of the other objects never touch
restVars == <<journalVars, aggVars, chatVars, loadVars, notifyVars, clockVars, uiVars, sidebarVars,
              pageVars>>

\* what the handlers of one of these objects leave alone among them
restOfJournal == <<aggVars, chatVars, loadVars, notifyVars, clockVars, uiVars, sidebarVars,
                  pageVars>>
restOfAgg == <<journalVars, chatVars, loadVars, notifyVars, clockVars, uiVars, sidebarVars,
                  pageVars>>
restOfChat == <<journalVars, aggVars, loadVars, notifyVars, clockVars, uiVars, sidebarVars,
                  pageVars>>
restOfLoad == <<journalVars, aggVars, chatVars, notifyVars, clockVars, uiVars, sidebarVars,
                  pageVars>>
restOfNotify == <<journalVars, aggVars, chatVars, loadVars, clockVars, uiVars, sidebarVars,
                  pageVars>>
restOfUi == <<journalVars, aggVars, chatVars, loadVars, notifyVars, clockVars, sidebarVars,
                  pageVars>>
restOfSidebar == <<journalVars, aggVars, chatVars, loadVars, notifyVars, clockVars, uiVars,
                   pageVars>>
restOfPage == <<journalVars, aggVars, chatVars, loadVars, notifyVars, clockVars, uiVars,
                sidebarVars>>

vars == <<progressVars, windowVars, sharedVars, moodVars, exerciseVars, readerVars, streakVars,
          restVars>>

\* everything the dashboard's handlers leave alone
notProgressVars == <<windowVars, sharedVars, moodVars, exerciseVars, readerVars, streakVars,
                     restVars>>

----------------------------------------------------------------------------
(* JavaScript numbers.  NaN is a value of its own: arithmetic on it gives  *)
(* NaN and every comparison with it is false.                              *)

NaN == -999999

JsAdd(a, b) == IF a = NaN \/ b = NaN THEN NaN ELSE a + b

\* Math.min(a, b)
MathMin(a, b) == IF a = NaN \/ b = NaN THEN NaN ELSE IF a <= b THEN a ELSE b

\* a >= b
JsGe(a, b) == a # NaN /\ b # NaN /\ a >= b

\* a < b
JsLt(a, b) == a # NaN /\ b # NaN /\ a < b

Digits == {"0", "1", "2", "3", "4", "5", "6", "7", "8", "9"}

DigitVal(c) ==
    CASE c = "0" -> 0 [] c = "1" -> 1 [] c = "2" -> 2 [] c = "3" -> 3 [] c = "4" -> 4
      [] c = "5" -> 5 [] c = "6" -> 6 [] c = "7" -> 7 [] c = "8" -> 8 [] c = "9" -> 9

RECURSIVE ParseDigits(_, _, _)
ParseDigits(s, i, acc) ==
    IF i > Len(s) \/ s[i] \notin Digits
    THEN acc
    ELSE ParseDigits(s, i + 1, acc * 10 + DigitVal(s[i]))

\* parseInt(text): optional sign, then the leading run of digits; NaN when
\* there is no digit.  A text is a sequence of one-character strings.
ParseInt(s) ==
    LET signed == Len(s) > 0 /\ s[1] \in {"-", "+"}
        start  == IF signed THEN 2 ELSE 1
    IN  IF start > Len(s) \/ s[start] \notin Digits
        THEN NaN
        ELSE IF signed /\ s[1] = "-"
             THEN 0 - ParseDigits(s, start, 0)
             ELSE ParseDigits(s, start, 0)

----------------------------------------------------------------------------
(* progress-dashboard.js                                                   *)

Badges == {"resource-explorer", "challenge-crusher", "monthly-milestone", "crisis-survivor"}

\* loadMockData: this.progressData.  recentActivity keeps date and count,
\* newest first (the dates of January 2024 are day numbers below zero, day 0
\* being the first day of the session); milestones keeps the completed flags.
MockProgressData ==
    [b \in Badges |->
        CASE b = "resource-explorer" ->
                [current |-> 18, target |-> 25,
                 recentActivity |-> <<[date |-> -1, count |-> 3], [date |-> -2, count |-> 2],
                                      [date |-> -3, count |-> 1]>>,
                 milestones |-> <<TRUE, TRUE, TRUE, FALSE, FALSE>>]
          [] b = "challenge-crusher" ->
                [current |-> 2, target |-> 5,
                 recentActivity |-> <<[date |-> -6, count |-> 1], [date |-> -11, count |-> 1]>>,
                 milestones |-> <<TRUE, TRUE, FALSE, FALSE, FALSE>>]
          [] b = "monthly-milestone" ->
                [current |-> 22, target |-> 30,
                 recentActivity |-> <<[date |-> -1, count |-> 1], [date |-> -2, count |-> 1],
                                      [date |-> -3, count |-> 1]>>,
                 milestones |-> <<TRUE, TRUE, TRUE, FALSE, FALSE>>]
          [] b = "crisis-survivor" ->
                [current |-> 0, target |-> 1,
                 recentActivity |-> <<>>,
                 milestones |-> <<FALSE>>]]

\* loadMockData: this.userStats (the integer fields)
MockUserStats ==
    [totalSessions |-> 45, streakDays |-> 12, moodEntries |-> 28,
     copingStrategiesLearned |-> 8, resourcesExplored |-> 18,
     challengesCompleted |-> 2, activeDays |-> 22]

\* resetProgress: this.userStats
ZeroUserStats ==
    [totalSessions |-> 0, streakDays |-> 0, moodEntries |-> 0,
     copingStrategiesLearned |-> 0, resourcesExplored |-> 0,
     challengesCompleted |-> 0, activeDays |-> 0]

\* What GET /api/user/progress and /api/user/stats answer when they are
\* available: the server's record of the user, which no handler of the
\* dashboard writes to (a user the server has no activity for).
ApiProgressData ==
    [b \in Badges |->
        [current |-> 0, target |-> MockProgressData[b].target,
         recentActivity |-> <<>>,
         milestones |-> [i \in DOMAIN MockProgressData[b].milestones |-> FALSE]]]

ApiUserStats == ZeroUserStats

\* Outcomes of the two fetches of loadProgressData
LoadOutcomes == {"ok", "network_error", "not_ok"}

\* Bounds of the dashboard model
MaxShown == 2        \* 'badge-earned' notifications counted per badge
MaxTodayCount == 2   \* today's recentActivity count per badge

\* Inputs
ModalTexts == {<<>>, <<"-", "3">>, <<"0">>}
EventProgressValues == {30}
NavigationHashes == {"mood-tracker", "chat"}
ActivityTypes == {"mood-logged", "chat-message"}
BadgeIdInputs == {"monthly-milestone", "crisis-survivor"}

\* loadProgressData: the state it leaves in this.progressData / this.userStats
LoadedProgressData(outcome) == IF outcome = "ok" THEN ApiProgressData ELSE MockProgressData

LoadedUserStats(outcome) == IF outcome = "ok" THEN ApiUserStats ELSE MockUserStats

\* updateProgress(badgeId, newProgress): the new progressData
UpdateProgressData(pd, badgeId, newProgress) ==
    IF badgeId \notin DOMAIN pd
    THEN pd
    ELSE [pd EXCEPT ![badgeId].current = MathMin(newProgress, pd[badgeId].target)]

\* (item.current / item.target) * 100, as renderOverallStats,
\* generateRecommendations and calculateOverallCompletion compute it
ItemProgress(item) ==
    [num |-> IF item.current = NaN THEN NaN ELSE item.current * 100, den |-> item.target]

RECURSIVE TargetProduct(_, _)
TargetProduct(pd, badges) ==
    IF badges = {}
    THEN 1
    ELSE LET b == CHOOSE x \in badges : TRUE
         IN  pd[b].target * TargetProduct(pd, badges \ {b})

\* the reduce of calculateOverallCompletion: the sum of
\* Math.min((item.current / item.target) * 100, 100), over the denominator scale
RECURSIVE TotalProgress(_, _, _)
TotalProgress(pd, badges, scale) ==
    IF badges = {}
    THEN 0
    ELSE LET b == CHOOSE x \in badges : TRUE
             p == ItemProgress(pd[b])
         IN  JsAdd(IF p.num = NaN
                   THEN NaN
                   ELSE MathMin(p.num, 100 * p.den) * (scale \div p.den),
                   TotalProgress(pd, badges \ {b}, scale))

\* calculateOverallCompletion()
CalculateOverallCompletion(pd) ==
    IF DOMAIN pd = {}
    THEN 0
    ELSE LET scale == TargetProduct(pd, DOMAIN pd)
             total == TotalProgress(pd, DOMAIN pd, scale)
             count == Cardinality(DOMAIN pd)
         IN  IF total = NaN
             THEN NaN
             ELSE (2 * total + scale * count) \div (2 * scale * count)

\* updateProgress: "Check if badge is now earned"
EmitsBadgeEarned(pd, badgeId) ==
    /\ badgeId \in DOMAIN pd
    /\ JsGe(pd[badgeId].current, pd[badgeId].target)
    /\ windowAchievementNotifications

\* updateProgress: the notification counts after the call
UpdateProgressShown(pdAfter, shown, badgeId) ==
    IF EmitsBadgeEarned(pdAfter, badgeId)
    THEN [shown EXCEPT ![badgeId] = @ + 1]
    ELSE shown

\* history: which badges an update has taken from below target up to target
ReachedAfter(pdBefore, pdAfter, badgeId) ==
    IF /\ badgeId \in DOMAIN pdBefore
       /\ pdBefore[badgeId].current # pdBefore[badgeId].target
       /\ pdAfter[badgeId].current = pdAfter[badgeId].target
    THEN [reachedTarget EXCEPT ![badgeId] = TRUE]
    ELSE reachedTarget

\* simulateActivity: "Add to recent activity" and "Keep only last 7 days"
RecentActivityAfter(recent, amount) ==
    LET todays == {i \in DOMAIN recent : recent[i].date = today}
        first  == CHOOSE i \in todays : \A j \in todays : i <= j
        added  == IF todays # {}
                  THEN [recent EXCEPT ![first].count = @ + amount]
                  ELSE <<[date |-> today, count |-> amount]>> \o recent
    IN  SubSeq(added, 1, IF Len(added) < 7 THEN Len(added) ELSE 7)

TodayCount(recent) ==
    LET todays == {i \in DOMAIN recent : recent[i].date = today}
    IN  IF todays = {} THEN 0 ELSE recent[CHOOSE i \in todays : \A j \in todays : i <= j].count

\* updateProgress(badgeId, newProgress), as called by the 'progressUpdate'
\* listener and by updateProgressFromModal
UpdateProgress(badgeId, newProgress) ==
    LET pdAfter == UpdateProgressData(progressData, badgeId, newProgress)
        shown   == UpdateProgressShown(pdAfter, badgeEarnedShown, badgeId)
    IN  /\ shown[badgeId] <= MaxShown
        /\ progressData' = pdAfter
        /\ badgeEarnedShown' = shown
        /\ reachedTarget' = ReachedAfter(progressData, pdAfter, badgeId)
        /\ UNCHANGED <<userStats, updateTimer, initialLoadPending, notProgressVars>>

\* simulateActivity: newProgress, the amount taken as the new progress
SimulatedProgressAmountOnly(item, amount) == MathMin(amount, item.target)

\* simulateActivity: newProgress
SimulatedProgress(item, amount) == MathMin(JsAdd(item.current, amount), item.target)

\* simulateActivity(badgeId, activityType, amount)
SimulateActivity(badgeId, amount) ==
    IF badgeId \notin DOMAIN progressData
    THEN UNCHANGED vars
    ELSE LET item        == progressData[badgeId]
             newProgress == SimulatedProgress(item, amount)
             pdUpdated   == UpdateProgressData(progressData, badgeId, newProgress)
             shown       == UpdateProgressShown(pdUpdated, badgeEarnedShown, badgeId)
             pdAfter     == [pdUpdated EXCEPT ![badgeId].recentActivity =
                                RecentActivityAfter(item.recentActivity, amount)]
         IN  /\ shown[badgeId] <= MaxShown
             /\ TodayCount(item.recentActivity) + amount <= MaxTodayCount
             /\ progressData' = pdAfter
             /\ badgeEarnedShown' = shown
             /\ reachedTarget' = ReachedAfter(progressData, pdAfter, badgeId)
             /\ UNCHANGED <<userStats, updateTimer, initialLoadPending, notProgressVars>>

\* handleNavigation: the badge each hash maps to ("" for a hash with no case)
NavigationBadge(hash) ==
    CASE hash \in {"mood-tracker", "journal", "exercises"} -> "monthly-milestone"
      [] hash = "resources" -> "resource-explorer"
      [] OTHER -> ""

\* the 'hashchange' listener: handleNavigation()
HandleNavigation ==
    \E hash \in NavigationHashes :
        IF NavigationBadge(hash) = ""
        THEN UNCHANGED vars
        ELSE SimulateActivity(NavigationBadge(hash), 0)

\* handleFeatureActivity: activityMap ("" for a type it does not hold)
ActivityBadge(type) ==
    CASE type \in {"mood-logged", "journal-entry"} -> "monthly-milestone"
      [] type = "exercise-completed" -> "challenge-crusher"
      [] type = "resource-explored" -> "resource-explorer"
      [] OTHER -> ""

\* the 'featureActivity' listener: handleFeatureActivity(event.detail)
HandleFeatureActivity ==
    \E type \in ActivityTypes :
        IF ActivityBadge(type) = ""
        THEN UNCHANGED vars
        ELSE SimulateActivity(ActivityBadge(type), 1)

\* a quick-action button of getQuickActions: simulateActivity(item.badgeId, .., 1)
QuickAction ==
    \E badgeId \in BadgeIdInputs : SimulateActivity(badgeId, 1)

\* the 'progressUpdate' listener
ProgressUpdateEvent ==
    \E badgeId \in BadgeIdInputs, progress \in EventProgressValues :
        UpdateProgress(badgeId, progress)

\* updateProgressFromModal(badgeId): the modal of showTrackProgressModal is
\* open on an item of progressData and holds the typed text
UpdateProgressFromModal ==
    \E badgeId \in BadgeIdInputs \cap DOMAIN progressData, text \in ModalTexts :
        UpdateProgress(badgeId, ParseInt(text))

\* resetProgress(), the confirm() answered yes
ResetProgress ==
    /\ progressData' =
          [b \in DOMAIN progressData |->
              [progressData[b] EXCEPT
                  !.current = 0,
                  !.recentActivity = <<>>,
                  !.milestones = [i \in DOMAIN progressData[b].milestones |-> FALSE]]]
    /\ userStats' = ZeroUserStats
    /\ UNCHANGED <<updateTimer, badgeEarnedShown, reachedTarget, initialLoadPending, notProgressVars>>

\* loadProgressData(), settled
LoadProgressData(outcome) ==
    /\ progressData' = LoadedProgressData(outcome)
    /\ userStats' = LoadedUserStats(outcome)

\* the load started by init() settles
InitialLoad ==
    /\ initialLoadPending
    /\ initialLoadPending' = FALSE
    /\ \E outcome \in LoadOutcomes : LoadProgressData(outcome)
    /\ UNCHANGED <<updateTimer, badgeEarnedShown, reachedTarget, notProgressVars>>

\* refresh(): the Refresh button
Refresh ==
    /\ \E outcome \in LoadOutcomes : LoadProgressData(outcome)
    /\ UNCHANGED <<updateTimer, badgeEarnedShown, reachedTarget, initialLoadPending, notProgressVars>>

\* startAutoUpdate()
StartAutoUpdate ==
    /\ updateTimer' = TRUE
    /\ UNCHANGED <<progressData, userStats, badgeEarnedShown, reachedTarget,
                   initialLoadPending, notProgressVars>>

\* stopAutoUpdate()
StopAutoUpdate ==
    /\ updateTimer' = FALSE
    /\ UNCHANGED <<progressData, userStats, badgeEarnedShown, reachedTarget,
                   initialLoadPending, notProgressVars>>

\* the interval of startAutoUpdate fires: refresh()
AutoUpdateTick ==
    /\ updateTimer
    /\ \E outcome \in LoadOutcomes : LoadProgressData(outcome)
    /\ UNCHANGED <<updateTimer, badgeEarnedShown, reachedTarget, initialLoadPending, notProgressVars>>

\* new ProgressTrackingDashboard(..): the constructor has run, its load is pending
InitProgress ==
    /\ progressData = <<>>
    /\ userStats = [totalSessions |-> 0, streakDays |-> 0, moodEntries |-> 0,
                    copingStrategiesLearned |-> 0, resourcesExplored |-> 0,
                    challengesCompleted |-> 0, activeDays |-> 0]
    /\ updateTimer = FALSE
    /\ badgeEarnedShown = [b \in Badges |-> 0]
    /\ reachedTarget = [b \in Badges |-> FALSE]
    /\ initialLoadPending = TRUE

\* the window globals as the page load leaves them
InitWindow ==
    /\ windowAchievementNotifications \in BOOLEAN
    /\ windowRewardPreview = FALSE

\* the dashboard reads window.achievementNotifications only
InitWindowProgress ==
    /\ windowAchievementNotifications \in BOOLEAN
    /\ windowRewardPreview = FALSE

----------------------------------------------------------------------------
(* Local storage and JSON                                                  *)

\* A stored text is absent (getItem gives null), the empty string, a text
\* JSON.parse rejects, or the JSON encoding of a value.
AbsentText == [kind |-> "absent", value |-> <<>>]
EmptyText == [kind |-> "empty", value |-> <<>>]
GarbageText == [kind |-> "garbage", value |-> <<>>]

\* JSON.stringify(value)
JsonStringify(value) == [kind |-> "json", value |-> value]

\* JSON.parse(text) throws a SyntaxError
JsonParseThrows(text) == text.kind \in {"garbage", "empty"}

\* JSON.parse(text), when it does not throw
JsonParse(text) == text.value

\* a text is truthy unless it is null or the empty string
Truthy(text) == text.kind \notin {"absent", "empty"}

StorageKeys == {"chillbuddy_mood_history", "chillbuddy_journal_entries",
                "chillbuddy_exercise_history", "favoriteResources", "resourceHistory",
                "apiUsage"}

EmptyStorage == [k \in StorageKeys |-> AbsentText]

----------------------------------------------------------------------------
(* Achievements and the reward preview                                     *)

AchievementIds == {"first_mood", "mood_week", "first_exercise", "breathing_master",
                   "mindfulness_master", "first_journal", "journal_5", "journal_10",
                   "journal_25", "journal_50", "journal_100", "streak_3", "streak_7",
                   "streak_14", "streak_30"}

Features == {"mood", "journal", "exercise"}

NoProgress == [current |-> -1, total |-> -1]

\* the forEach at the end of checkAchievements: every achievement goes to
\* window.achievementNotifications.showNotification when that global is set
DispatchAchievements(shown, ids) ==
    IF windowAchievementNotifications
    THEN [a \in AchievementIds |-> IF a \in ids THEN shown[a] + 1 ELSE shown[a]]
    ELSE shown

\* the badge id each feature passes to rewardPreview.updateProgress
RewardBadgeId ==
    [f \in Features |-> CASE f = "mood" -> "mood_tracker"
                          [] f = "journal" -> "mindful_writer"
                          [] f = "exercise" -> "wellness_warrior"]

\* the keys of shouldUpdateBadge's badgeMapping: for any other id no badge
\* element matches and updateProgress computes nothing
BadgeMappingIds ==
    {"first_conversation", "week_warrior", "mood_tracker", "coping_champion",
     "resource_explorer", "challenge_crusher", "first_journal", "reflection_master",
     "daily_writer", "first_mood", "mood_master", "emotional_awareness", "first_exercise",
     "mindfulness_master"}

\* if (window.rewardPreview) window.rewardPreview.updateProgress(feature, .., current, total)
RewardPreviewAfter(progress, feature, current, total) ==
    IF windowRewardPreview
    THEN [progress EXCEPT ![feature] = [current |-> current, total |-> total]]
    ELSE progress

InitShared ==
    /\ uncaught = {}
    /\ achievementShown = [a \in AchievementIds |-> 0]
    /\ rewardPreviewProgress = [f \in Features |-> NoProgress]
    /\ localStorage = EmptyStorage
    /\ today = 0

----------------------------------------------------------------------------
(* Streaks                                                                 *)

RECURSIVE CalculateStreakFrom(_, _, _, _)
CalculateStreakFrom(days, i, expected, streak) ==
    IF i > Len(days)
    THEN streak
    ELSE IF days[i] = expected
         THEN CalculateStreakFrom(days, i + 1, expected - 1, streak + 1)
         ELSE streak

\* MoodTracker.calculateStreak over the calendar days of the entries:
\* currentDate starts at today and steps back one day per matching entry
CalculateStreak(days, now) ==
    IF Len(days) = 0 THEN 0 ELSE CalculateStreakFrom(days, 1, now, 0)

\* new Date(..).setHours(0, 0, 0, 0): the local midnight that starts a calendar
\* day, in hours; a day on which the clocks go forward lasts 23 hours
LocalMidnight(day) == 24 * day - Cardinality({d \in shortDays : d < day})

\* Math.floor((today - entryDate) / (1000 * 60 * 60 * 24))
DaysDiff(now, day) == (LocalMidnight(now) - LocalMidnight(day)) \div 24

RECURSIVE GetStreakFrom(_, _, _, _)
GetStreakFrom(days, i, now, streak) ==
    IF i > Len(days)
    THEN streak
    ELSE IF DaysDiff(now, days[i]) = streak
         THEN GetStreakFrom(days, i + 1, now, streak + 1)
         ELSE streak

\* JournalSystem.getStreak over the calendar days of the entries:
\* daysDiff of entry i must equal the streak counted so far
GetStreak(days, now) ==
    IF Len(days) = 0 THEN 0 ELSE GetStreakFrom(days, 1, now, 0)

----------------------------------------------------------------------------
(* mood-tracker.js                                                         *)

NoMood == 0

MoodCap == 30

MoodRewardTotal == 14

\* Bounds and inputs of the mood model
MaxMoodLogs == 32
MaxDay == 1
SelectableMoods == {4}

\* the calendar days of a history, newest first
DaysOf(history) == [i \in DOMAIN history |-> history[i].day]

\* logMood, "Keep only last 30 entries": the oldest entries kept instead
KeepOldest(history, cap) ==
    IF Len(history) > cap THEN SubSeq(history, Len(history) - cap + 1, Len(history)) ELSE history

\* logMood / completeExercise: if (length > cap) history = history.slice(0, cap)
KeepNewest(history, cap) ==
    IF Len(history) > cap THEN SubSeq(history, 1, cap) ELSE history

\* MoodTracker.checkAchievements: the ids pushed to achievements
MoodAchievements(history, now) ==
    (IF Len(history) = 1 THEN {"first_mood"} ELSE {})
        \cup (IF CalculateStreak(DaysOf(history), now) = 7 THEN {"mood_week"} ELSE {})

\* resetForm(): this.currentMood afterwards
ResetFormMood == NoMood

\* a click on a .mood-scale-item
SelectMood ==
    \E value \in SelectableMoods :
        /\ currentMood' = value
        /\ UNCHANGED <<moodHistory, moodNextId, progressVars, windowVars, sharedVars,
                       exerciseVars, readerVars, streakVars,
                       restVars>>

\* logMood()
LogMood ==
    IF currentMood = NoMood
    THEN UNCHANGED vars
    ELSE LET moodEntry == [id |-> moodNextId, day |-> today, value |-> currentMood]
             history   == KeepNewest(<<moodEntry>> \o moodHistory, MoodCap)
             moodAfterReset == ResetFormMood
             \* `Mood logged successfully! ${this.currentMood.emoji}` reads a
             \* property of this.currentMood after resetForm()
             threw     == moodAfterReset = NoMood
         IN  /\ moodNextId <= MaxMoodLogs
             /\ moodHistory' = history
             /\ moodNextId' = moodNextId + 1
             /\ localStorage' = [localStorage EXCEPT
                                    !["chillbuddy_mood_history"] = JsonStringify(history)]
             /\ currentMood' = moodAfterReset
             /\ IF threw
                THEN /\ uncaught' = uncaught \cup {"logMood"}
                     /\ UNCHANGED <<rewardPreviewProgress, achievementShown>>
                ELSE /\ rewardPreviewProgress' =
                            RewardPreviewAfter(rewardPreviewProgress, "mood",
                                               Len(history), MoodRewardTotal)
                     /\ achievementShown' =
                            DispatchAchievements(achievementShown,
                                                 MoodAchievements(history, today))
                     /\ UNCHANGED uncaught
             /\ UNCHANGED <<today, progressVars, windowVars, exerciseVars, readerVars,
                            streakVars,
                            restVars>>

\* midnight passes
AdvanceDay ==
    /\ today < MaxDay
    /\ today' = today + 1
    /\ UNCHANGED <<uncaught, achievementShown, rewardPreviewProgress, localStorage,
                   progressVars, windowVars, moodVars, exerciseVars, readerVars, streakVars,
                   restVars>>

\* new MoodTracker() on a browser with no stored history
InitMood ==
    /\ moodHistory = <<>>
    /\ currentMood = NoMood
    /\ moodNextId = 1

----------------------------------------------------------------------------
(* exercises.js                                                            *)

NoExercise == "none"

NoTimer == 0

ExerciseCap == 50

\* the id of completeExercise's rewardPreview.updateProgress call has total 1
ExerciseRewardTotal == 1

\* initializeExercises(): category and duration (seconds) of every exercise
Exercises ==
    [id \in {"box_breathing", "478_breathing", "belly_breathing", "body_scan",
             "mindful_observation", "loving_kindness", "mindful_walking"} |->
        CASE id = "box_breathing"       -> [category |-> "breathing",   duration |-> 300]
          [] id = "478_breathing"       -> [category |-> "breathing",   duration |-> 240]
          [] id = "belly_breathing"     -> [category |-> "breathing",   duration |-> 600]
          [] id = "body_scan"           -> [category |-> "mindfulness", duration |-> 900]
          [] id = "mindful_observation" -> [category |-> "mindfulness", duration |-> 300]
          [] id = "loving_kindness"     -> [category |-> "mindfulness", duration |-> 720]
          [] id = "mindful_walking"     -> [category |-> "mindfulness", duration |-> 600]]

\* findExercise(exerciseId) finds an exercise
FindExercise(exerciseId) == exerciseId \in DOMAIN Exercises

\* a <= b
JsLe(a, b) == a # NaN /\ b # NaN /\ a <= b

\* Bounds of the exercise model
MaxIntervals == 2        \* setInterval calls in one behaviour
MaxOvertime == 1         \* seconds below zero a countdown is followed
MaxPendingCloses == 2    \* pending closeExerciseModal timeouts
MaxCompletions == 52     \* completion records created in one behaviour

\* clearInterval(this.timer)
ClearTimer(live, handle) == live \ {handle}

\* ExercisesSystem.checkAchievements: the ids pushed to achievements
ExerciseAchievements(history, category) ==
    (IF Len(history) = 1 THEN {"first_exercise"} ELSE {})
        \cup (IF Cardinality({i \in DOMAIN history : history[i].category = category}) = 5
              THEN {IF category = "breathing" THEN "breathing_master" ELSE "mindfulness_master"}
              ELSE {})

\* a click on a .category-card
SelectCategory(category) ==
    /\ currentCategory' = category
    /\ UNCHANGED <<currentExercise, isActive, timer, liveIntervals, nextIntervalId,
                   timeRemaining, totalDuration, exerciseHistory, exerciseNextId,
                   modalDisplayed, modalBodyIntact, completeBtnShown, pendingCloses,
                   countdownCancelled, sessionRecords, phaseTimeouts,
                   progressVars, windowVars, sharedVars, moodVars, readerVars, streakVars,
                   restVars>>

\* startExercise(exerciseId)
StartExercise(exerciseId) ==
    IF ~FindExercise(exerciseId)
    THEN UNCHANGED vars
    ELSE /\ currentExercise' = exerciseId
         /\ isActive' = FALSE
         /\ IF modalBodyIntact
            THEN \* setupTimer(exercise.duration), then the modal is shown
                 /\ timeRemaining' = Exercises[exerciseId].duration
                 /\ totalDuration' = Exercises[exerciseId].duration
                 /\ completeBtnShown' = FALSE
                 /\ modalDisplayed' = TRUE
                 /\ sessionRecords' = 0
                 /\ UNCHANGED uncaught
            ELSE \* getElementById('exerciseInstructions') is null: instructions.innerHTML throws
                 /\ uncaught' = uncaught \cup {"startExercise"}
                 /\ UNCHANGED <<timeRemaining, totalDuration, completeBtnShown, modalDisplayed,
                                sessionRecords>>
         /\ UNCHANGED <<currentCategory, timer, liveIntervals, nextIntervalId,
                        exerciseHistory, exerciseNextId, modalBodyIntact, pendingCloses,
                        countdownCancelled, phaseTimeouts,
                        achievementShown, rewardPreviewProgress, localStorage, today,
                        progressVars, windowVars, moodVars, readerVars, streakVars,
                        restVars>>

\* startTimer's  if (this.currentCategory === 'breathing') this.startBreathingGuide():
\* with isActive just set, breathingCycle runs the first phase and sets the
\* timeout of the next one; startBreathingGuide returns early with no exercise
StartBreathingGuide(pending) ==
    IF currentCategory = "breathing" /\ currentExercise # NoExercise
    THEN pending + 1
    ELSE pending

\* startTimer()
StartTimer ==
    /\ isActive' = TRUE
    /\ IF modalBodyIntact
       THEN /\ nextIntervalId <= MaxIntervals
            /\ timer' = nextIntervalId
            /\ liveIntervals' = liveIntervals \cup {nextIntervalId}
            /\ nextIntervalId' = nextIntervalId + 1
            /\ countdownCancelled' = FALSE
            /\ phaseTimeouts' = StartBreathingGuide(phaseTimeouts)
            /\ UNCHANGED uncaught
       ELSE \* getElementById('startPauseBtn') is null: startPauseBtn.innerHTML throws
            /\ uncaught' = uncaught \cup {"startTimer"}
            /\ UNCHANGED <<timer, liveIntervals, nextIntervalId, countdownCancelled,
                           phaseTimeouts>>
    /\ UNCHANGED <<currentCategory, currentExercise, timeRemaining, totalDuration, sessionRecords,
                   exerciseHistory, exerciseNextId, modalDisplayed, modalBodyIntact,
                   completeBtnShown, pendingCloses,
                   achievementShown, rewardPreviewProgress, localStorage, today,
                   progressVars, windowVars, moodVars, readerVars, streakVars,
                   restVars>>

\* pauseTimer()
PauseTimer ==
    /\ isActive' = FALSE
    /\ liveIntervals' = ClearTimer(liveIntervals, timer)
    /\ countdownCancelled' = TRUE
    /\ uncaught' = IF modalBodyIntact THEN uncaught ELSE uncaught \cup {"pauseTimer"}
    /\ UNCHANGED <<sessionRecords, phaseTimeouts, currentCategory, currentExercise, timer, nextIntervalId, timeRemaining,
                   totalDuration, exerciseHistory, exerciseNextId, modalDisplayed,
                   modalBodyIntact, completeBtnShown, pendingCloses,
                   achievementShown, rewardPreviewProgress, localStorage, today,
                   progressVars, windowVars, moodVars, readerVars, streakVars,
                   restVars>>

\* toggleTimer(): the Start / Pause / Resume button
ToggleTimer == IF isActive THEN PauseTimer ELSE StartTimer

\* resetTimer(): the Reset button
ResetTimer ==
    /\ isActive' = FALSE
    /\ liveIntervals' = ClearTimer(liveIntervals, timer)
    /\ countdownCancelled' = TRUE
    /\ timeRemaining' = totalDuration
    /\ uncaught' = IF modalBodyIntact THEN uncaught ELSE uncaught \cup {"resetTimer"}
    /\ completeBtnShown' = FALSE
    /\ UNCHANGED <<currentCategory, currentExercise, timer, nextIntervalId, totalDuration,
                   exerciseHistory, exerciseNextId, modalDisplayed, modalBodyIntact,
                   pendingCloses, sessionRecords, phaseTimeouts,
                   achievementShown, rewardPreviewProgress, localStorage, today,
                   progressVars, windowVars, moodVars, readerVars, streakVars,
                   restVars>>

\* completeExercise(), called when this.timeRemaining is remaining and the
\* Complete button's visibility is btnShown
CompleteExerciseCall(remaining, btnShown) ==
    /\ isActive' = FALSE
    /\ liveIntervals' = ClearTimer(liveIntervals, timer)
    /\ countdownCancelled' = TRUE
    /\ timeRemaining' = remaining
    /\ IF currentExercise = NoExercise
       THEN /\ completeBtnShown' = btnShown
            /\ UNCHANGED <<exerciseHistory, exerciseNextId, localStorage,
                           rewardPreviewProgress, modalBodyIntact, achievementShown,
                           pendingCloses, sessionRecords>>
       ELSE LET completion == [id |-> exerciseNextId,
                               exerciseId |-> currentExercise,
                               category |-> currentCategory,
                               duration |-> JsAdd(totalDuration, 0 - remaining),
                               day |-> today]
                history    == KeepNewest(<<completion>> \o exerciseHistory, ExerciseCap)
            IN  /\ exerciseNextId <= MaxCompletions
                /\ pendingCloses < MaxPendingCloses
                /\ exerciseHistory' = history
                /\ exerciseNextId' = exerciseNextId + 1
                /\ localStorage' = [localStorage EXCEPT
                                       !["chillbuddy_exercise_history"] = JsonStringify(history)]
                /\ rewardPreviewProgress' =
                       RewardPreviewAfter(rewardPreviewProgress, "exercise",
                                          Len(history), ExerciseRewardTotal)
                \* showCompletionMessage(): modal.innerHTML = completionHTML
                /\ modalBodyIntact' = FALSE
                /\ completeBtnShown' = FALSE
                /\ achievementShown' =
                       DispatchAchievements(achievementShown,
                                            ExerciseAchievements(history, currentCategory))
                /\ pendingCloses' = pendingCloses + 1
                /\ sessionRecords' = sessionRecords + 1
    /\ UNCHANGED <<currentCategory, currentExercise, timer, nextIntervalId, totalDuration,
                   modalDisplayed, uncaught, today, phaseTimeouts,
                   progressVars, windowVars, moodVars, readerVars, streakVars,
                   restVars>>

\* completeExercise(): the Complete button
CompleteExercise == CompleteExerciseCall(timeRemaining, completeBtnShown)

\* updateTimerDisplay(): "Show complete button when 30 seconds or less remaining"
CompleteBtnAfterDisplay(remaining) ==
    IF modalBodyIntact /\ JsLe(remaining, 30) /\ isActive THEN TRUE ELSE completeBtnShown

\* the callback of startTimer's setInterval fires for the live interval id
Tick(id) ==
    /\ id \in liveIntervals
    /\ timeRemaining = NaN \/ timeRemaining > 0 - MaxOvertime
    /\ LET remaining == JsAdd(timeRemaining, -1)
       IN  IF JsLe(remaining, 0)
           THEN CompleteExerciseCall(remaining, CompleteBtnAfterDisplay(remaining))
           ELSE /\ timeRemaining' = remaining
                /\ completeBtnShown' = CompleteBtnAfterDisplay(remaining)
                /\ UNCHANGED <<currentCategory, currentExercise, isActive, timer,
                               liveIntervals, nextIntervalId, totalDuration,
                               exerciseHistory, exerciseNextId, modalDisplayed,
                               modalBodyIntact, pendingCloses, countdownCancelled,
                               sessionRecords, phaseTimeouts,
                               progressVars, windowVars, sharedVars, moodVars, readerVars,
                               streakVars,
                               restVars>>

\* closeExerciseModal(): the state it leaves
CloseExerciseModalCall ==
    /\ modalDisplayed' = FALSE
    /\ liveIntervals' = IF timer # NoTimer THEN ClearTimer(liveIntervals, timer)
                        ELSE liveIntervals
    /\ timer' = NoTimer
    /\ isActive' = FALSE
    /\ currentExercise' = NoExercise
    /\ countdownCancelled' = TRUE
    /\ UNCHANGED <<currentCategory, nextIntervalId, timeRemaining, totalDuration,
                   exerciseHistory, exerciseNextId, modalBodyIntact, completeBtnShown,
                   sessionRecords, phaseTimeouts,
                   progressVars, windowVars, sharedVars, moodVars, readerVars, streakVars,
                   restVars>>

\* closeExerciseModal(): the close button of the modal header
CloseExerciseModal ==
    /\ CloseExerciseModalCall
    /\ UNCHANGED pendingCloses

\* the setTimeout of completeExercise fires: closeExerciseModal()
CloseTimeout ==
    /\ pendingCloses > 0
    /\ pendingCloses' = pendingCloses - 1
    /\ CloseExerciseModalCall

\* the setTimeout callback of runPhase fires: runPhase returns when the
\* timer is not active, and otherwise shows the next phase and sets the next
\* timeout
PhaseTimeout ==
    /\ phaseTimeouts > 0
    /\ phaseTimeouts' = IF isActive THEN phaseTimeouts ELSE phaseTimeouts - 1
    /\ UNCHANGED <<currentCategory, currentExercise, isActive, timer, liveIntervals,
                   nextIntervalId, timeRemaining, totalDuration, exerciseHistory,
                   exerciseNextId, modalDisplayed, modalBodyIntact, completeBtnShown,
                   pendingCloses, countdownCancelled, sessionRecords,
                   progressVars, windowVars, sharedVars, moodVars, readerVars, streakVars,
                   restVars>>

\* new ExercisesSystem() on a browser with no stored history
InitExercise ==
    /\ currentCategory = "breathing"
    /\ currentExercise = NoExercise
    /\ isActive = FALSE
    /\ timer = NoTimer
    /\ liveIntervals = {}
    /\ nextIntervalId = 1
    /\ timeRemaining = NaN
    /\ totalDuration = NaN
    /\ exerciseHistory = <<>>
    /\ exerciseNextId = 1
    /\ modalDisplayed = FALSE
    /\ modalBodyIntact = TRUE
    /\ completeBtnShown = FALSE
    /\ pendingCloses = 0
    /\ countdownCancelled = FALSE
    /\ sessionRecords = 0
    /\ phaseTimeouts = 0

----------------------------------------------------------------------------
(* The readers of local storage                                            *)

\* a field no constructor has assigned yet
Unset == <<"unset">>

NoUsage == [count |-> -1, date |-> -1]

\* Kinds of stored text a page load can find under a key
StoredKinds == {"absent", "garbage", "json"}

\* A well-formed value stored under each key
StoredValue(key) ==
    CASE key = "chillbuddy_mood_history" -> <<[id |-> 1, day |-> 0, value |-> 4]>>
      [] key = "chillbuddy_journal_entries" -> <<[id |-> 1, day |-> 0, wordCount |-> 12]>>
      [] key = "chillbuddy_exercise_history" ->
            <<[id |-> 1, exerciseId |-> "478_breathing", category |-> "breathing",
               duration |-> 240, day |-> 0]>>
      [] key = "favoriteResources" -> <<"crisis-hotline">>
      [] key = "resourceHistory" -> <<"breathing-guide">>
      [] key = "apiUsage" -> [count |-> 3, date |-> 0]

\* The text of the given kind stored under a key
StoredText(key, kind) ==
    CASE kind = "absent" -> AbsentText
      [] kind = "garbage" -> GarbageText
      [] kind = "json" -> JsonStringify(StoredValue(key))

\* loadMoodHistory / loadEntries / loadExerciseHistory:
\*   try { const saved = getItem(key); return saved ? JSON.parse(saved) : []; }
\*   catch (error) { return []; }
LoadList(text) ==
    IF ~Truthy(text) THEN <<>>
    ELSE IF JsonParseThrows(text) THEN <<>>
    ELSE JsonParse(text)

\* the text handed to JSON.parse by  JSON.parse(getItem(key) || '[]')
OrEmptyList(text) == IF Truthy(text) THEN text ELSE JsonStringify(<<>>)

\* new MoodTracker(): this.moodHistory = this.loadMoodHistory()
MoodTrackerNew ==
    /\ moodHistory' = LoadList(localStorage["chillbuddy_mood_history"])
    /\ currentMood' = NoMood
    /\ constructed' = constructed \cup {"MoodTracker"}
    /\ UNCHANGED <<moodNextId, journalEntries, favoriteResources, resourceHistory, apiUsage,
                   progressVars, windowVars, sharedVars, exerciseVars, streakVars,
                   restVars>>

\* new JournalSystem(): this.entries = this.loadEntries()
JournalSystemNew ==
    /\ journalEntries' = LoadList(localStorage["chillbuddy_journal_entries"])
    /\ constructed' = constructed \cup {"JournalSystem"}
    /\ UNCHANGED <<favoriteResources, resourceHistory, apiUsage,
                   progressVars, windowVars, sharedVars, moodVars, exerciseVars, streakVars,
                   restVars>>

\* new ExercisesSystem(): this.exerciseHistory = this.loadExerciseHistory()
ExercisesSystemNew ==
    /\ exerciseHistory' = LoadList(localStorage["chillbuddy_exercise_history"])
    /\ constructed' = constructed \cup {"ExercisesSystem"}
    /\ UNCHANGED <<currentCategory, currentExercise, isActive, timer, liveIntervals,
                   nextIntervalId, timeRemaining, totalDuration, exerciseNextId,
                   modalDisplayed, modalBodyIntact, completeBtnShown, pendingCloses,
                   countdownCancelled, sessionRecords, phaseTimeouts,
                   journalEntries, favoriteResources, resourceHistory,
                   apiUsage,
                   progressVars, windowVars, sharedVars, moodVars, streakVars,
                   restVars>>

\* new ResourcesManager(): the two JSON.parse(localStorage.getItem(..) || '[]')
\* of the constructor, in order, with no try around them
ResourcesManagerNew ==
    LET favorites == OrEmptyList(localStorage["favoriteResources"])
        history   == OrEmptyList(localStorage["resourceHistory"])
    IN  /\ IF JsonParseThrows(favorites)
           THEN /\ uncaught' = uncaught \cup {"ResourcesManager"}
                /\ UNCHANGED <<favoriteResources, resourceHistory, constructed>>
           ELSE IF JsonParseThrows(history)
           THEN /\ favoriteResources' = JsonParse(favorites)
                /\ uncaught' = uncaught \cup {"ResourcesManager"}
                /\ UNCHANGED <<resourceHistory, constructed>>
           ELSE /\ favoriteResources' = JsonParse(favorites)
                /\ resourceHistory' = JsonParse(history)
                /\ constructed' = constructed \cup {"ResourcesManager"}
                /\ UNCHANGED uncaught
        /\ UNCHANGED <<journalEntries, apiUsage, achievementShown, rewardPreviewProgress,
                       localStorage, today,
                       progressVars, windowVars, moodVars, exerciseVars, streakVars,
                       restVars>>

\* getApiCallCount()
GetApiCallCount ==
    LET usageData == localStorage["apiUsage"]
    IN  /\ IF Truthy(usageData) /\ JsonParseThrows(usageData)
           THEN /\ uncaught' = uncaught \cup {"getApiCallCount"}
                /\ UNCHANGED <<apiUsage, localStorage, constructed>>
           ELSE LET parsed == IF Truthy(usageData) THEN JsonParse(usageData)
                              ELSE [count |-> 0, date |-> -1]
                    usage  == IF parsed.date # today THEN [count |-> 0, date |-> today]
                              ELSE parsed
                IN  /\ apiUsage' = usage
                    /\ localStorage' = IF parsed.date # today
                                       THEN [localStorage EXCEPT !["apiUsage"] = JsonStringify(usage)]
                                       ELSE localStorage
                    /\ constructed' = constructed \cup {"getApiCallCount"}
                    /\ UNCHANGED uncaught
        /\ UNCHANGED <<journalEntries, favoriteResources, resourceHistory, achievementShown,
                       rewardPreviewProgress, today,
                       progressVars, windowVars, moodVars, exerciseVars, streakVars,
                       restVars>>

\* before any constructor has run
InitReaders ==
    /\ journalEntries = Unset
    /\ favoriteResources = Unset
    /\ resourceHistory = Unset
    /\ apiUsage = NoUsage
    /\ constructed = {}

----------------------------------------------------------------------------
(* The streak functions applied to an entry list                           *)

\* the streak variables hold <<>> before the call and <<streak>> after it
NotComputed == <<>>

\* Bounds of the streak inputs
MaxStreakEntries == 4
MaxStreakSpan == 3

\* entry lists held newest first: the days never increase along the list
NewestFirstDayLists ==
    UNION {{d \in [1..n -> 0..MaxStreakSpan] : \A i \in 1..(n - 1) : d[i] >= d[i + 1]} :
           n \in 0..MaxStreakEntries}

\* moodTracker.calculateStreak() on a history with these days
ComputeMoodStreak ==
    /\ moodStreak' = <<CalculateStreak(streakDays, today)>>
    /\ UNCHANGED <<streakDays, journalStreak,
                   progressVars, windowVars, sharedVars, moodVars, exerciseVars, readerVars,
                   restVars>>

\* journalSystem.getStreak() on entries with these days
ComputeJournalStreak ==
    /\ journalStreak' = <<GetStreak(streakDays, today)>>
    /\ UNCHANGED <<streakDays, moodStreak,
                   progressVars, windowVars, sharedVars, moodVars, exerciseVars, readerVars,
                   restVars>>

InitStreakIdle ==
    /\ streakDays = <<>>
    /\ moodStreak = NotComputed
    /\ journalStreak = NotComputed

----------------------------------------------------------------------------
(* journal.js : JournalSystem                                              *)

\* null, as a record of the entries' shape with the id no entry has
NoEntry == [id |-> 0, day |-> 0, content |-> 0, wordCount |-> 0]

JournalRewardTotal == 1

\* Bounds of the journal model
MaxJournalIds == 2     \* entry ids handed out by startNewEntry
MaxJournalEntries == MaxJournalIds + 1   \* length of this.entries

\* Inputs: the texts typed into the editor, each named by its number of words
JournalTexts == {1, 2}

\* the ids of the entries of a list
EntryIds(entries) == {entries[i].id : i \in DOMAIN entries}

\* this.entries.find(e => e.id === id): the first index holding id, 0 if none
FindEntryIndex(entries, id) ==
    IF id \in EntryIds(entries)
    THEN CHOOSE i \in DOMAIN entries :
            entries[i].id = id /\ \A j \in DOMAIN entries : entries[j].id = id => i <= j
    ELSE 0

\* a write through this.currentEntry when it is the object this.entries holds:
\* every slot of the list that holds that object shows the new field values
WriteThrough(entries, stored, entry) ==
    IF stored
    THEN [i \in DOMAIN entries |-> IF entries[i].id = entry.id THEN entry ELSE entries[i]]
    ELSE entries

\* checkAchievements, the milestone test: milestones.includes(length)
JournalMilestone(length) ==
    CASE length = 5 -> {"journal_5"}
      [] length = 10 -> {"journal_10"}
      [] length = 25 -> {"journal_25"}
      [] length = 50 -> {"journal_50"}
      [] length = 100 -> {"journal_100"}
      [] OTHER -> {}

\* checkAchievements, the streak test: [3, 7, 14, 30].includes(streak)
JournalStreakAchievement(streak) ==
    CASE streak = 3 -> {"streak_3"}
      [] streak = 7 -> {"streak_7"}
      [] streak = 14 -> {"streak_14"}
      [] streak = 30 -> {"streak_30"}
      [] OTHER -> {}

\* JournalSystem.checkAchievements: the ids pushed to achievements
JournalAchievements(entries, now) ==
    (IF Len(entries) = 1 THEN {"first_journal"} ELSE {})
        \cup JournalMilestone(Len(entries))
        \cup JournalStreakAchievement(GetStreak(DaysOf(entries), now))

\* the id editEntry / deleteEntry act on: entryId || this.currentEntry?.id
\* (0 stands for the omitted argument and for no id at all)
TargetEntryId(entryId) ==
    IF entryId # 0 THEN entryId
    ELSE IF currentEntry # NoEntry THEN currentEntry.id ELSE 0

\* startNewEntry()
StartNewEntry ==
    /\ journalNextId <= MaxJournalIds
    /\ currentEntry' = [id |-> journalNextId, day |-> today, content |-> 0, wordCount |-> 0]
    /\ currentEntryStored' = FALSE
    /\ isEditing' = FALSE
    /\ editorShown' = TRUE
    /\ journalNextId' = journalNextId + 1
    /\ UNCHANGED <<textarea, progressVars, windowVars, sharedVars, moodVars, exerciseVars,
                   readerVars, streakVars, restOfJournal>>

\* the user types into #entryTextarea: the 'input' listener runs updateWordCount()
TypeText ==
    \E text \in JournalTexts :
        /\ editorShown
        /\ textarea' = text
        /\ IF currentEntry = NoEntry
           THEN UNCHANGED <<currentEntry, journalEntries>>
           ELSE LET entry == [currentEntry EXCEPT !.wordCount = text]
                IN  /\ currentEntry' = entry
                    /\ journalEntries' = WriteThrough(journalEntries, currentEntryStored, entry)
        /\ UNCHANGED <<currentEntryStored, isEditing, editorShown, journalNextId,
                       favoriteResources, resourceHistory, apiUsage, constructed,
                       progressVars, windowVars, sharedVars, moodVars, exerciseVars, streakVars,
                       restOfJournal>>

\* editEntry(entryId)
EditEntry(entryId) ==
    LET index == FindEntryIndex(journalEntries, TargetEntryId(entryId))
    IN  IF index = 0
        THEN UNCHANGED vars
        ELSE LET entry == journalEntries[index]
             IN  /\ isEditing' = TRUE
                 /\ editorShown' = TRUE
                 /\ textarea' = entry.content
                 \* { ...entry }, then updateWordCount() on the populated textarea
                 /\ currentEntry' = [entry EXCEPT !.wordCount = entry.content]
                 /\ currentEntryStored' = FALSE
                 /\ UNCHANGED <<journalNextId, progressVars, windowVars, sharedVars, moodVars,
                                exerciseVars, readerVars, streakVars, restOfJournal>>

\* viewEntry(entryId): this.currentEntry = entry, the stored object itself
ViewEntry(entryId) ==
    LET index == FindEntryIndex(journalEntries, entryId)
    IN  IF index = 0
        THEN UNCHANGED vars
        ELSE /\ currentEntry' = journalEntries[index]
             /\ currentEntryStored' = TRUE
             /\ UNCHANGED <<isEditing, editorShown, textarea, journalNextId, progressVars,
                            windowVars, sharedVars, moodVars, exerciseVars, readerVars,
                            streakVars, restOfJournal>>

\* hideEditor(): the fields it leaves
HideEditor ==
    /\ editorShown' = FALSE
    /\ textarea' = 0
    /\ currentEntry' = NoEntry
    /\ currentEntryStored' = FALSE
    /\ isEditing' = FALSE

\* saveEntry, "Update existing entry": the edited copy added, the entry kept
ReplaceEntryAppended(entries, entry) == entries \o <<entry>>

\* saveEntry, "Update existing entry": entries[index] = { ...currentEntry }
ReplaceEntry(entries, entry) ==
    LET index == FindEntryIndex(entries, entry.id)
    IN  IF index # 0 THEN [entries EXCEPT ![index] = entry] ELSE entries

\* saveEntry()
SaveEntry ==
    IF textarea = 0
    THEN UNCHANGED vars
    ELSE IF currentEntry = NoEntry
    THEN /\ uncaught' = uncaught \cup {"saveEntry"}
         /\ UNCHANGED <<achievementShown, rewardPreviewProgress, localStorage, today,
                        progressVars, windowVars, moodVars, exerciseVars, readerVars,
                        streakVars, restVars>>
    ELSE LET entry   == [currentEntry EXCEPT !.content = textarea]
             written == WriteThrough(journalEntries, currentEntryStored, entry)
             entries == IF isEditing THEN ReplaceEntry(written, entry)
                                     ELSE <<entry>> \o written
             shown   == DispatchAchievements(achievementShown,
                                             JournalAchievements(entries, today))
         IN  /\ Len(entries) <= MaxJournalEntries
             /\ \A a \in AchievementIds : shown[a] <= MaxShown
             /\ journalEntries' = entries
             /\ localStorage' = [localStorage EXCEPT
                                    !["chillbuddy_journal_entries"] = JsonStringify(entries)]
             /\ HideEditor
             /\ achievementShown' = shown
             /\ rewardPreviewProgress' =
                    RewardPreviewAfter(rewardPreviewProgress, "journal", Len(entries),
                                       JournalRewardTotal)
             /\ UNCHANGED <<uncaught, today, journalNextId, favoriteResources,
                            resourceHistory, apiUsage, constructed, progressVars, windowVars,
                            moodVars, exerciseVars, streakVars, restOfJournal>>

\* cancelEntry(), the confirm() answered yes
CancelEntry ==
    /\ HideEditor
    /\ UNCHANGED <<journalNextId, progressVars, windowVars, sharedVars, moodVars,
                   exerciseVars, readerVars, streakVars, restOfJournal>>

\* deleteEntry(entryId), the confirm() answered yes
DeleteEntry(entryId) ==
    LET id == TargetEntryId(entryId)
    IN  IF FindEntryIndex(journalEntries, id) = 0
        THEN UNCHANGED vars
        ELSE LET entries == SelectSeq(journalEntries, LAMBDA e : e.id # id)
             IN  /\ journalEntries' = entries
                 /\ localStorage' = [localStorage EXCEPT
                                        !["chillbuddy_journal_entries"] = JsonStringify(entries)]
                 /\ UNCHANGED <<uncaught, achievementShown, rewardPreviewProgress, today,
                                favoriteResources, resourceHistory, apiUsage, constructed,
                                journalVars, progressVars, windowVars, moodVars,
                                exerciseVars, streakVars, restOfJournal>>

\* new JournalSystem() on a browser with no stored entries
InitJournal ==
    /\ currentEntry = NoEntry
    /\ currentEntryStored = FALSE
    /\ isEditing = FALSE
    /\ editorShown = FALSE
    /\ textarea = 0
    /\ journalNextId = 1

\* the readers once the journal page has loaded with nothing stored
InitJournalLoaded ==
    /\ journalEntries = <<>>
    /\ favoriteResources = <<>>
    /\ resourceHistory = <<>>
    /\ apiUsage = NoUsage
    /\ constructed = {"JournalSystem"}

----------------------------------------------------------------------------
(* The aggregate functions applied to stored input                         *)

\* Array.prototype.reduce((sum, x) => sum + x, 0)
RECURSIVE SumOf(_)
SumOf(values) ==
    IF Len(values) = 0 THEN 0 ELSE values[1] + SumOf(Tail(values))

\* a JavaScript quotient a / b: the fraction, kept exact
Quotient(a, b) == [num |-> a, den |-> b]

\* the number 0 as a quotient
ZeroQuotient == Quotient(0, 1)

MathFloor(q) == q.num \div q.den

\* Math.round: the nearest integer, halves upward
MathRound(q) == (2 * q.num + q.den) \div (2 * q.den)

\* MoodTracker.calculateAverageMood over the mood values of the history
CalculateAverageMood(values) ==
    IF Len(values) = 0 THEN ZeroQuotient ELSE Quotient(SumOf(values), Len(values))

\* JournalSystem.getAverageWordsPerEntry over the word counts of the entries
GetAverageWordsPerEntry(values) ==
    IF Len(values) = 0 THEN 0 ELSE MathRound(Quotient(SumOf(values), Len(values)))

\* Date.prototype.toDateString() starts with the weekday name, so the default
\* sort() orders dates by weekday name first: Fri, Mon, Sat, Sun, Thu, Tue, Wed.
\* Day 0 is a Thursday; the days of a model run lie in one month.
WeekdayRank(day) == <<4, 0, 2, 3, 1, 5, 6>>[(day % 7) + 1]

DateStringLess(a, b) ==
    \/ WeekdayRank(a) < WeekdayRank(b)
    \/ WeekdayRank(a) = WeekdayRank(b) /\ a < b

\* [...new Set(dates.sort())]
RECURSIVE SortedUniqueDates(_)
SortedUniqueDates(daySet) ==
    IF daySet = {}
    THEN <<>>
    ELSE LET first == CHOOSE a \in daySet : \A b \in daySet \ {a} : DateStringLess(a, b)
         IN  <<first>> \o SortedUniqueDates(daySet \ {first})

RECURSIVE ConsecutiveFrom(_, _, _, _)
ConsecutiveFrom(uniqueDates, i, consecutive, maxConsecutive) ==
    IF i > Len(uniqueDates)
    THEN maxConsecutive
    ELSE IF LocalMidnight(uniqueDates[i]) - LocalMidnight(uniqueDates[i - 1]) = 24
         THEN ConsecutiveFrom(uniqueDates, i + 1, consecutive + 1,
                              IF consecutive + 1 > maxConsecutive
                              THEN consecutive + 1 ELSE maxConsecutive)
         ELSE ConsecutiveFrom(uniqueDates, i + 1, 1, maxConsecutive)

\* RewardPreview.calculateConsecutiveDays over the calendar days of the entries
CalculateConsecutiveDays(days) ==
    IF Len(days) = 0
    THEN 0
    ELSE ConsecutiveFrom(SortedUniqueDates({days[i] : i \in DOMAIN days}), 2, 1, 1)

\* AchievementTimeline.calculateCurrentStreak: Math.floor(Math.random() * 15) + 1
\* when no 'streak-master' badge is held
StreakMasterStreak == 30
RandomStreaks == 1..15
CurrentStreaks(hasStreakMaster) ==
    IF hasStreakMaster THEN {StreakMasterStreak} ELSE RandomStreaks

\* moodTracker.calculateAverageMood()
ComputeAverageMood ==
    /\ averageMood' = <<CalculateAverageMood(aggValues)>>
    /\ UNCHANGED <<aggValues, averageWords, consecutiveDays, timelineHasStreakMaster,
                   timelineStreak,
                   progressVars, windowVars, sharedVars, moodVars, exerciseVars, readerVars,
                   streakVars, restOfAgg>>

\* journalSystem.getAverageWordsPerEntry()
ComputeAverageWords ==
    /\ averageWords' = <<GetAverageWordsPerEntry(aggValues)>>
    /\ UNCHANGED <<aggValues, averageMood, consecutiveDays, timelineHasStreakMaster,
                   timelineStreak,
                   progressVars, windowVars, sharedVars, moodVars, exerciseVars, readerVars,
                   streakVars, restOfAgg>>

\* rewardPreview.calculateConsecutiveDays(entries)
ComputeConsecutiveDays ==
    /\ consecutiveDays' = <<CalculateConsecutiveDays(streakDays)>>
    /\ UNCHANGED <<aggValues, averageMood, averageWords, timelineHasStreakMaster,
                   timelineStreak,
                   progressVars, windowVars, sharedVars, moodVars, exerciseVars, readerVars,
                   streakVars, restOfAgg>>

\* AchievementTimeline.updateStats(): #current-streak gets calculateCurrentStreak()
UpdateStats(hasStreakMaster) ==
    /\ timelineHasStreakMaster' = hasStreakMaster
    /\ \E streak \in CurrentStreaks(hasStreakMaster) : timelineStreak' = <<streak>>
    /\ UNCHANGED <<aggValues, averageMood, averageWords, consecutiveDays,
                   progressVars, windowVars, sharedVars, moodVars, exerciseVars, readerVars,
                   streakVars, restOfAgg>>

\* what /api/achievements/timeline answers: no answer (the mock data, which
\* holds 'streak-master', is loaded), or achievements with or without that badge
TimelineReplies == {"unavailable", "with_streak_master", "without_streak_master"}

\* AchievementTimeline.loadData(), also run by refresh()
TimelineLoadData(reply) ==
    UpdateStats(reply # "without_streak_master")

\* AchievementTimeline.addAchievement(achievement)
TimelineAddAchievement(isStreakMaster) ==
    UpdateStats(timelineHasStreakMaster \/ isStreakMaster)

\* timeline.updateStats() on the achievements as they are
TimelineUpdateStats ==
    UpdateStats(timelineHasStreakMaster)

InitAggIdle ==
    /\ aggValues = <<>>
    /\ averageMood = <<>>
    /\ averageWords = <<>>
    /\ consecutiveDays = <<>>
    /\ timelineHasStreakMaster = FALSE
    /\ timelineStreak = <<>>

----------------------------------------------------------------------------
(* chat.js                                                                 *)

\* The strings the function returns
AuthenticationMessage ==
    "I need you to be authenticated to chat. Please refresh the page and try again."
SlowDownMessage ==
    "You're sending messages too quickly. Please take a moment and try again."
TechnicalDifficultiesMessage ==
    "I'm experiencing some technical difficulties. Please try again in a moment."
CouldNotProcessMessage ==
    "I'm sorry, but I couldn't process your message right now. Please try again."
CrisisMessage ==
    "I'm here to support you. If you're in crisis, please reach out to a mental health professional or crisis hotline."
RephraseMessage ==
    "I'm having a little trouble thinking right now. Could you try rephrasing your message?"
ConnectingMessage ==
    "I'm having a little trouble connecting right now. Please try again in a moment."

\* What the body of a reply parses to.  kind: the text is not JSON, is the
\* JSON null, or is a JSON object; message: <<>> when the object has no
\* message field, else the string it holds
InvalidJson == [kind |-> "invalid", message |-> <<>>, crisis_detected |-> FALSE]
JsonNull == [kind |-> "null", message |-> <<>>, crisis_detected |-> FALSE]
BackendTexts == {"", "Take a slow breath with me."}
ReplyBodies ==
    {InvalidJson, JsonNull}
        \cup {[kind |-> "object", message |-> m, crisis_detected |-> c] :
                 m \in {<<>>} \cup {<<t>> : t \in BackendTexts}, c \in BOOLEAN}

ReplyStatuses == {200, 400, 401, 429, 500, 503}

\* fetch() rejected: no response at all
NoReply == [arrived |-> FALSE, status |-> 0, bodyReadable |-> FALSE, body |-> InvalidJson]

\* What a fetch can meet: no response, or a response with a status and a
\* body that can be read to its end or breaks off while it is read
Replies ==
    {NoReply}
        \cup [arrived : {TRUE}, status : ReplyStatuses, bodyReadable : BOOLEAN,
              body : ReplyBodies]

\* response.ok
ResponseOk(status) == 200 <= status /\ status <= 299

\* the status mapping of the !response.ok branch
StatusMessage(status) ==
    IF status = 401 THEN AuthenticationMessage
    ELSE IF status = 429 THEN SlowDownMessage
    ELSE IF status >= 500 THEN TechnicalDifficultiesMessage
    ELSE CouldNotProcessMessage

\* a string of JavaScript is truthy unless empty; undefined is falsy
TruthyMessage(message) == message # <<>> /\ message[1] # ""

\* data.message || "I'm here to support you. ..."
CrisisReplyRaw(message) == IF message = <<>> THEN "" ELSE message[1]

CrisisReply(message) == IF TruthyMessage(message) THEN message[1] ELSE CrisisMessage

\* the statements after `const data = await response.json()`
DataResult(data) ==
    IF data.kind = "object" /\ TruthyMessage(data.message)
    THEN data.message[1]
    ELSE IF data.kind = "object" /\ data.crisis_detected
         THEN CrisisReply(data.message)
         ELSE RephraseMessage

\* the !response.ok branch once `await response.text()` has returned
ErrorResult(reply) == StatusMessage(reply.status)

\* what the call resolves to: a rejected fetch, response.text() or
\* response.json() lands in the catch block
ResponseResult(reply) ==
    IF ~reply.arrived
    THEN ConnectingMessage
    ELSE IF ~ResponseOk(reply.status)
         THEN IF reply.bodyReadable THEN ErrorResult(reply) ELSE ConnectingMessage
         ELSE IF reply.bodyReadable /\ reply.body.kind # "invalid"
              THEN DataResult(reply.body)
              ELSE ConnectingMessage

\* Bound of the calls followed
MaxChatCalls == 2

\* fetch() calls one call makes: one, inside the try block, with no loop
FetchesPerCall == 1

\* await getChillBuddyResponse(userMessage)
GetChillBuddyResponse(reply) ==
    /\ chatCalls < MaxChatCalls
    /\ chatCalls' = chatCalls + 1
    /\ chatFetches' = FetchesPerCall
    /\ chatReply' = reply
    /\ chatResult' = ResponseResult(reply)
    /\ UNCHANGED <<progressVars, windowVars, sharedVars, moodVars, exerciseVars, readerVars,
                   streakVars, restOfChat>>

InitChat ==
    /\ chatReply = NoReply
    /\ chatFetches = 0
    /\ chatResult = ""
    /\ chatCalls = 0

----------------------------------------------------------------------------
(* The async loaders                                                       *)

\* The loadProgressData() calls followed: call 1 is the one init() starts,
\* call 2 the one of a refresh()
LoadCalls == {1, 2}
InitialCall == 1

\* the other fields of the dashboard, with initialLoadPending cleared when the
\* call of init() has finished
LoadFinished(c) ==
    /\ initialLoadPending' = (initialLoadPending /\ c # InitialCall)
    /\ UNCHANGED <<updateTimer, badgeEarnedShown, reachedTarget>>

LoadContinues ==
    UNCHANGED <<updateTimer, badgeEarnedShown, reachedTarget, initialLoadPending>>

\* catch (error): loadMockData()
LoadCatch(c) ==
    /\ progressData' = MockProgressData
    /\ userStats' = MockUserStats
    /\ loadPc' = [loadPc EXCEPT ![c] = "done"]
    /\ LoadFinished(c)

\* refresh(): loadProgressData() runs up to `await Promise.all([fetch, fetch])`
StartLoadProgressData(c) ==
    /\ loadPc[c] = "idle"
    /\ loadPc' = [loadPc EXCEPT ![c] = "fetching"]
    /\ UNCHANGED <<progressData, userStats, loadReply, galleryBadges>>
    /\ LoadContinues
    /\ UNCHANGED <<windowVars, sharedVars, moodVars, exerciseVars, readerVars, streakVars,
                   restOfLoad>>

\* Promise.all settles: both responses ok and the call goes on to
\* `await progressResponse.json()`, or the catch block runs
FetchesSettle(c) ==
    /\ loadPc[c] = "fetching"
    /\ \E outcome \in LoadOutcomes :
          /\ loadReply' = [loadReply EXCEPT ![c] = outcome]
          /\ IF outcome = "ok"
             THEN /\ loadPc' = [loadPc EXCEPT ![c] = "progress_json"]
                  /\ UNCHANGED <<progressData, userStats>>
                  /\ LoadContinues
             ELSE LoadCatch(c)
    /\ UNCHANGED <<galleryBadges, windowVars, sharedVars, moodVars, exerciseVars, readerVars,
                   streakVars, restOfLoad>>

\* `this.progressData = await progressResponse.json()` settles
ProgressJsonSettles(c) ==
    /\ loadPc[c] = "progress_json"
    /\ \E parsed \in BOOLEAN :
          IF parsed
          THEN /\ progressData' = ApiProgressData
               /\ loadPc' = [loadPc EXCEPT ![c] = "stats_json"]
               /\ UNCHANGED userStats
               /\ LoadContinues
          ELSE LoadCatch(c)
    /\ UNCHANGED <<loadReply, galleryBadges, windowVars, sharedVars, moodVars, exerciseVars,
                   readerVars, streakVars, restOfLoad>>

\* `this.userStats = await statsResponse.json()` settles
StatsJsonSettles(c) ==
    /\ loadPc[c] = "stats_json"
    /\ \E parsed \in BOOLEAN :
          IF parsed
          THEN /\ userStats' = ApiUserStats
               /\ loadPc' = [loadPc EXCEPT ![c] = "done"]
               /\ UNCHANGED progressData
               /\ LoadFinished(c)
          ELSE LoadCatch(c)
    /\ UNCHANGED <<loadReply, galleryBadges, windowVars, sharedVars, moodVars, exerciseVars,
                   readerVars, streakVars, restOfLoad>>

\* what GET /api/user/badges can meet; "bad_shape": JSON without the earned
\* and locked arrays, on which the spread throws inside the try block
BadgeOutcomes == {"ok", "network_error", "not_ok", "bad_json", "bad_shape"}

\* BadgeGallery.loadBadgeData(): this.badges is assigned once, in the try
\* block or in the catch block
LoadBadgeData(outcome) ==
    /\ galleryBadges' = IF outcome = "ok" THEN "api" ELSE "mock"
    /\ UNCHANGED <<loadPc, loadReply, progressVars, windowVars, sharedVars, moodVars,
                   exerciseVars, readerVars, streakVars, restOfLoad>>

\* the dashboard constructed: init() has started its loadProgressData()
InitLoadStarted ==
    /\ loadPc = [c \in LoadCalls |-> IF c = InitialCall THEN "fetching" ELSE "idle"]
    /\ loadReply = [c \in LoadCalls |-> "none"]
    /\ galleryBadges = "none"

InitLoadIdle ==
    /\ loadPc = [c \in LoadCalls |-> "idle"]
    /\ loadReply = [c \in LoadCalls |-> "none"]
    /\ galleryBadges = "none"

----------------------------------------------------------------------------
(* achievement-notifications.js                                            *)

\* this.options.maxNotifications
MaxNotificationsOption == 3

\* Bound of the notifications created in one behaviour
MaxNotifyIds == 5

\* indexOf + splice
RemoveFromList(list, n) == SelectSeq(list, LAMBDA x : x # n)

\* removeNotification(notification), up to the setTimeout: a notification
\* that is not in the document is left alone, any other gets the 400 ms timer
HideTimersAfterRemove(timers, nodes, n) ==
    IF n \in nodes THEN timers \cup {n} ELSE timers

\* showNotification(badge, type)
ShowNotification ==
    /\ notifyNextId <= MaxNotifyIds
    /\ LET n == notifyNextId
       IN  /\ hideTimers' =
                 IF Len(notifications) >= MaxNotificationsOption
                 THEN HideTimersAfterRemove(hideTimers, containerNodes, notifications[1])
                 ELSE hideTimers
           /\ notifications' = Append(notifications, n)
           /\ containerNodes' = containerNodes \cup {n}
           /\ autoTimers' = autoTimers \cup {n}
           /\ notifyNextId' = n + 1
    /\ UNCHANGED <<progressVars, windowVars, sharedVars, moodVars, exerciseVars, readerVars,
                   streakVars, restOfNotify>>

\* the 400 ms timeout of removeNotification fires
HideTimeout(n) ==
    /\ n \in hideTimers
    /\ hideTimers' = hideTimers \ {n}
    /\ containerNodes' = containerNodes \ {n}
    /\ notifications' = RemoveFromList(notifications, n)
    /\ UNCHANGED <<autoTimers, notifyNextId,
                   progressVars, windowVars, sharedVars, moodVars, exerciseVars, readerVars,
                   streakVars, restOfNotify>>

\* the auto-remove timeout (options.duration) of a notification fires
AutoRemoveTimeout(n) ==
    /\ n \in autoTimers
    /\ autoTimers' = autoTimers \ {n}
    /\ hideTimers' = HideTimersAfterRemove(hideTimers, containerNodes, n)
    /\ UNCHANGED <<notifications, containerNodes, notifyNextId,
                   progressVars, windowVars, sharedVars, moodVars, exerciseVars, readerVars,
                   streakVars, restOfNotify>>

\* a click on the notification or on its close button
CloseNotification(n) ==
    /\ n \in containerNodes
    /\ hideTimers' = HideTimersAfterRemove(hideTimers, containerNodes, n)
    /\ UNCHANGED <<notifications, containerNodes, autoTimers, notifyNextId,
                   progressVars, windowVars, sharedVars, moodVars, exerciseVars, readerVars,
                   streakVars, restOfNotify>>

InitNotify ==
    /\ notifications = <<>>
    /\ containerNodes = {}
    /\ hideTimers = {}
    /\ autoTimers = {}
    /\ notifyNextId = 1

----------------------------------------------------------------------------
(* sidebar.js : the chat page.  handleSendMessage checks the daily limit,  *)
(* showBotResponse shows a typing indicator and awaits the answer.  A      *)
(* message is of kind "prompt" when getHardcodedResponse knows it (the     *)
(* suggested prompts) and of kind "typed" when it goes to the backend.     *)

DAILY_API_LIMIT == 25

MessageKinds == {"prompt", "typed"}

\* Bounds of the chat page
MaxBubbles == 2
MaxOverLimit == 2
MaxChatDays == 1

NoMessages == [k \in MessageKinds |-> 0]

\* the elements showBotResponse calls have on the page or are waiting to add
ConversationSize ==
    typing["prompt"] + typing["typed"] + bubbles["prompt"] + bubbles["typed"]

\* getApiCallCount(): the usage it returns
ApiUsageRead(storage, day) ==
    LET usageData == storage["apiUsage"]
        parsed == IF Truthy(usageData) THEN JsonParse(usageData)
                  ELSE [count |-> 0, date |-> -1]
    IN  IF parsed.date # day THEN [count |-> 0, date |-> day] ELSE parsed

\* getApiCallCount(): local storage when it returns
ApiUsageStored(storage, day) ==
    LET usageData == storage["apiUsage"]
        parsed == IF Truthy(usageData) THEN JsonParse(usageData)
                  ELSE [count |-> 0, date |-> -1]
    IN  IF parsed.date # day
        THEN [storage EXCEPT !["apiUsage"] = JsonStringify([count |-> 0, date |-> day])]
        ELSE storage

\* incrementApiCallCount(): local storage when it returns
IncrementApiCallCount(storage, day) ==
    LET usage == ApiUsageRead(storage, day)
    IN  [storage EXCEPT !["apiUsage"] = JsonStringify([usage EXCEPT !.count = @ + 1])]

\* the count stored for the calendar day `today', 0 when none is stored for it
StoredCountToday ==
    LET usageData == localStorage["apiUsage"]
    IN  IF Truthy(usageData) /\ ~JsonParseThrows(usageData)
           /\ JsonParse(usageData).date = today
        THEN JsonParse(usageData).count
        ELSE 0

\* showBotResponse(userMessage) up to its await: the typing indicator is
\* appended and the answer is awaited (a timer for a hardcoded response, the
\* fetch of getChillBuddyResponse otherwise)
ShowBotResponse(kind) ==
    /\ typing' = [typing EXCEPT ![kind] = @ + 1]
    /\ requestsToday' = requestsToday + 1

\* the user types a message into #chat-input
TypeMessage ==
    /\ chatInput' = "typed"
    /\ UNCHANGED <<typing, bubbles, requestsToday,
                   progressVars, windowVars, sharedVars, moodVars, exerciseVars, readerVars,
                   streakVars, restOfUi>>

\* click on a suggested prompt: its text is copied into #chat-input
ClickSuggestedPrompt ==
    /\ chatInput' = "prompt"
    /\ UNCHANGED <<typing, bubbles, requestsToday,
                   progressVars, windowVars, sharedVars, moodVars, exerciseVars, readerVars,
                   streakVars, restOfUi>>

\* handleSendMessage(): the send button or the Enter key
HandleSendMessage ==
    /\ chatInput # ""
    /\ IF Truthy(localStorage["apiUsage"]) /\ JsonParseThrows(localStorage["apiUsage"])
       THEN /\ uncaught' = uncaught \cup {"handleSendMessage"}
            /\ UNCHANGED <<chatInput, typing, requestsToday, localStorage, apiUsage>>
       ELSE LET usage == ApiUsageRead(localStorage, today)
                stored == ApiUsageStored(localStorage, today)
            IN  IF usage.count >= DAILY_API_LIMIT
                THEN /\ localStorage' = stored
                     /\ apiUsage' = usage
                     /\ chatInput' = ""
                     /\ UNCHANGED <<typing, requestsToday, uncaught>>
                ELSE /\ localStorage' = IncrementApiCallCount(stored, today)
                     /\ apiUsage' = usage
                     /\ chatInput' = ""
                     /\ ShowBotResponse(chatInput)
                     /\ UNCHANGED uncaught
    /\ UNCHANGED <<bubbles, achievementShown, rewardPreviewProgress, today,
                   journalEntries, favoriteResources, resourceHistory, constructed,
                   progressVars, windowVars, moodVars, exerciseVars, streakVars, restOfUi>>

\* click on the regenerate button of a displayed bot message
Regenerate(kind) ==
    /\ bubbles[kind] > 0
    /\ bubbles' = [bubbles EXCEPT ![kind] = @ - 1]
    /\ ShowBotResponse(kind)
    /\ UNCHANGED <<chatInput,
                   progressVars, windowVars, sharedVars, moodVars, exerciseVars, readerVars,
                   streakVars, restOfUi>>

\* the rest of showBotResponse once the awaited answer is there: the typing
\* indicator is removed and the bot message is appended with its buttons
ShowBotResponseResumes(kind) ==
    /\ typing[kind] > 0
    /\ typing' = [typing EXCEPT ![kind] = @ - 1]
    /\ bubbles' = [bubbles EXCEPT ![kind] = @ + 1]
    /\ UNCHANGED <<chatInput, requestsToday,
                   progressVars, windowVars, sharedVars, moodVars, exerciseVars, readerVars,
                   streakVars, restOfUi>>

\* the setTimeout(resolve, delay) of a hardcoded response fires
HardcodedDelayFires == ShowBotResponseResumes("prompt")

\* the fetch of getChillBuddyResponse settles (an answer, an error status or
\* a network failure): the call resolves to a message
ChatFetchSettles == ShowBotResponseResumes("typed")

\* midnight: the calendar day changes
ChatDayPasses ==
    /\ today < MaxChatDays
    /\ today' = today + 1
    /\ requestsToday' = 0
    /\ UNCHANGED <<chatInput, typing, bubbles, uncaught, achievementShown,
                   rewardPreviewProgress, localStorage,
                   progressVars, windowVars, moodVars, exerciseVars, readerVars,
                   streakVars, restOfUi>>

\* the chat page before the first message
InitUi ==
    /\ chatInput = ""
    /\ typing = NoMessages
    /\ bubbles = NoMessages
    /\ requestsToday = 0

----------------------------------------------------------------------------
(* sidebar.js : SidebarManager's chat history and the New Chat button.     *)
(* A chat id is a number: CurrentId stands for 'current' and t for         *)
(* 'chat_' + t.  The content of a conversation is a number that changes    *)
(* with every message appended to it.                                      *)

HistoryCap == 20

CurrentId == 0
NoContent == 0

\* Bounds of the sidebar
MaxSidebarEvents == 4

NoCall == [op |-> "none", id |-> -1, content |-> -1]

\* Date.now() when the page is opened: later than every save of an earlier visit
SessionStart == HistoryCap + 1

\* the ids of the chats of a history
ChatIds(history) == {history[i].id : i \in 1..Len(history)}

\* chatHistory.find(c => c.id === chatId): its position, 0 when there is none
FindChat(history, chatId) ==
    IF \E i \in 1..Len(history) : history[i].id = chatId
    THEN CHOOSE i \in 1..Len(history) :
            /\ history[i].id = chatId
            /\ \A j \in 1..(i - 1) : history[j].id # chatId
    ELSE 0

\* chatHistory.filter(chat => chat.id !== chatId)
RECURSIVE FilterOutChat(_, _)
FilterOutChat(history, chatId) ==
    IF history = <<>> THEN <<>>
    ELSE IF Head(history).id = chatId THEN FilterOutChat(Tail(history), chatId)
    ELSE <<Head(history)>> \o FilterOutChat(Tail(history), chatId)

\* chatHistory.slice(0, HistoryCap)
SliceToCap(history) ==
    IF Len(history) <= HistoryCap THEN history ELSE SubSeq(history, 1, HistoryCap)

\* saveCurrentChat without  filter(chat => chat.id !== this.currentChatId)
SaveCurrentChatUnfiltered(history, chatId, content, now) ==
    IF content = NoContent THEN history
    ELSE SliceToCap(<<[id |-> chatId, saved |-> now, content |-> content]>> \o history)

\* saveCurrentChat(): this.chatHistory when it returns
SaveCurrentChat(history, chatId, content, now) ==
    IF content = NoContent THEN history
    ELSE SliceToCap(<<[id |-> chatId, saved |-> now, content |-> content]>>
                    \o FilterOutChat(history, chatId))

\* saveCurrentChat() followed by saveChatHistory(): the stored text
StoredAfterSave(stored, history, content) ==
    IF content = NoContent THEN stored ELSE JsonStringify(history)

\* handleSendMessage / showBotResponse append a .message element to the
\* conversation
AppendMessage ==
    /\ sidebarNow < SessionStart + MaxSidebarEvents
    /\ displayed' = nextContent
    /\ nextContent' = nextContent + 1
    /\ sidebarNow' = sidebarNow + 1
    /\ lastCall' = NoCall
    /\ UNCHANGED <<chatHistory, storedChats, currentChatId, headerFirst,
                   progressVars, windowVars, sharedVars, moodVars, exerciseVars, readerVars,
                   streakVars, restOfSidebar>>

\* sidebarManager.saveCurrentChat()
SaveCurrentChatCall ==
    /\ sidebarNow < SessionStart + MaxSidebarEvents
    /\ displayed # NoContent
    /\ chatHistory' = SaveCurrentChat(chatHistory, currentChatId, displayed, sidebarNow)
    /\ storedChats' = StoredAfterSave(storedChats, chatHistory', displayed)
    /\ sidebarNow' = sidebarNow + 1
    /\ lastCall' = [op |-> "saveCurrentChat", id |-> currentChatId, content |-> displayed]
    /\ UNCHANGED <<currentChatId, displayed, nextContent, headerFirst,
                   progressVars, windowVars, sharedVars, moodVars, exerciseVars, readerVars,
                   streakVars, restOfSidebar>>

\* sidebarManager.createNewChat(): what it makes of the history, the stored
\* text, the conversation and the current id
CreateNewChat(state, now) ==
    LET history == SaveCurrentChat(state.history, state.id, state.displayed, now)
    IN  [history   |-> history,
         stored    |-> StoredAfterSave(state.stored, history, state.displayed),
         displayed |-> NoContent,
         id        |-> now]

\* the click handler of the header script up to its call of createNewChat:
\* chatMessagesContainer.innerHTML = ''
HeaderClears(state) == [state EXCEPT !.displayed = NoContent]

\* the click handler of the header script; window.sidebarManager is set
HeaderNewChat(state, now) == CreateNewChat(HeaderClears(state), now)

\* a click on .new-chat-btn: the two handlers run in their registration order
NewChatClick ==
    LET state == [history |-> chatHistory, stored |-> storedChats,
                  displayed |-> displayed, id |-> currentChatId]
        after == IF headerFirst
                 THEN CreateNewChat(HeaderNewChat(state, sidebarNow), sidebarNow)
                 ELSE HeaderNewChat(CreateNewChat(state, sidebarNow), sidebarNow)
    IN  /\ sidebarNow < SessionStart + MaxSidebarEvents
        /\ chatHistory' = after.history
        /\ storedChats' = after.stored
        /\ displayed' = after.displayed
        /\ currentChatId' = after.id
        /\ sidebarNow' = sidebarNow + 1
        /\ lastCall' = [op |-> "newChatClick", id |-> currentChatId, content |-> displayed]
        /\ UNCHANGED <<nextContent, headerFirst,
                       progressVars, windowVars, sharedVars, moodVars, exerciseVars,
                       readerVars, streakVars, restOfSidebar>>

\* sidebarManager.createNewChat() called on its own
CreateNewChatCall ==
    LET after == CreateNewChat([history |-> chatHistory, stored |-> storedChats,
                                displayed |-> displayed, id |-> currentChatId], sidebarNow)
    IN  /\ sidebarNow < SessionStart + MaxSidebarEvents
        /\ chatHistory' = after.history
        /\ storedChats' = after.stored
        /\ displayed' = after.displayed
        /\ currentChatId' = after.id
        /\ sidebarNow' = sidebarNow + 1
        /\ lastCall' = [op |-> "createNewChat", id |-> currentChatId, content |-> displayed]
        /\ UNCHANGED <<nextContent, headerFirst,
                       progressVars, windowVars, sharedVars, moodVars, exerciseVars,
                       readerVars, streakVars, restOfSidebar>>

\* sidebarManager.loadChat(chatId): a click on an item of the history list.
\* lastCall keeps the id asked for and the messages that chat has at the call:
\* those stored under the id, or those on the page when it is the chat shown
LoadChat(chatId) ==
    LET asked   == FindChat(chatHistory, chatId)
        history == SaveCurrentChat(chatHistory, currentChatId, displayed, sidebarNow)
        found   == FindChat(history, chatId)
    IN  /\ sidebarNow < SessionStart + MaxSidebarEvents
        /\ sidebarNow' = sidebarNow + 1
        /\ lastCall' = [op |-> "loadChat", id |-> chatId,
                        content |-> IF asked = 0 THEN NoContent
                                    ELSE IF chatId = currentChatId /\ displayed # NoContent
                                    THEN displayed
                                    ELSE chatHistory[asked].content]
        /\ IF chatId = CurrentId
           THEN UNCHANGED <<chatHistory, storedChats, displayed, currentChatId>>
           ELSE /\ chatHistory' = history
                /\ storedChats' = StoredAfterSave(storedChats, history, displayed)
                /\ IF found = 0
                   THEN UNCHANGED <<displayed, currentChatId>>
                   ELSE /\ displayed' = history[found].content
                        /\ currentChatId' = chatId
        /\ UNCHANGED <<nextContent, headerFirst,
                       progressVars, windowVars, sharedVars, moodVars, exerciseVars,
                       readerVars, streakVars, restOfSidebar>>

\* new SidebarManager() on a page with no conversation yet
SidebarManagerNew(stored) ==
    /\ storedChats = stored
    /\ chatHistory = LoadList(stored)
    /\ currentChatId = CurrentId
    /\ displayed = NoContent
    /\ lastCall = NoCall

\* a browser that has never stored a chat
InitSidebar ==
    /\ SidebarManagerNew(AbsentText)
    /\ nextContent = 1
    /\ sidebarNow = SessionStart
    /\ headerFirst = FALSE

----------------------------------------------------------------------------
(* The page load.  achievement-notifications.js, progress-dashboard.js and *)
(* the reward preview script each declare a top-level let binding, fill it *)
(* now or in a DOMContentLoaded listener, and end with                     *)
(*     window.<name> = <name>;                                             *)
(* which copies the value the binding holds at that moment.                *)

PageScripts == {"achievement-notifications", "progress-dashboard", "reward-preview"}

\* the listener of progress-dashboard.js and the else branch of its script:
\* the dashboard is constructed when the container exists
DashboardConstructed == dashboardContainer

\* achievement-notifications.js, top level
RunAchievementNotificationsScript ==
    /\ "achievement-notifications" \notin scriptsRun
    /\ scriptsRun' = scriptsRun \cup {"achievement-notifications"}
    /\ IF readyState = "loading"
       THEN /\ listeners' = listeners \cup {"achievementNotifications"}
            /\ UNCHANGED letInstances
       ELSE /\ letInstances' = letInstances \cup {"achievementNotifications"}
            /\ UNCHANGED listeners
    \* window.achievementNotifications = achievementNotifications
    /\ windowAchievementNotifications' = ("achievementNotifications" \in letInstances')
    /\ UNCHANGED <<windowRewardPreview, readyState, domContentLoaded, dashboardContainer,
                   windowProgressDashboard,
                   progressVars, sharedVars, moodVars, exerciseVars, readerVars, streakVars,
                   restOfPage>>

\* progress-dashboard.js, top level
RunProgressDashboardScript ==
    /\ "progress-dashboard" \notin scriptsRun
    /\ scriptsRun' = scriptsRun \cup {"progress-dashboard"}
    /\ IF readyState = "loading"
       THEN /\ listeners' = listeners \cup {"progressDashboard"}
            /\ UNCHANGED letInstances
       ELSE /\ letInstances' = IF DashboardConstructed
                               THEN letInstances \cup {"progressDashboard"}
                               ELSE letInstances
            /\ UNCHANGED listeners
    \* window.progressDashboard = progressDashboard
    /\ windowProgressDashboard' = ("progressDashboard" \in letInstances')
    /\ UNCHANGED <<windowAchievementNotifications, windowRewardPreview, readyState,
                   domContentLoaded, dashboardContainer,
                   progressVars, sharedVars, moodVars, exerciseVars, readerVars, streakVars,
                   restOfPage>>

\* the reward preview script, top level: the listener is added whatever the
\* readyState is
RunRewardPreviewScript ==
    /\ "reward-preview" \notin scriptsRun
    /\ scriptsRun' = scriptsRun \cup {"reward-preview"}
    /\ listeners' = listeners \cup {"rewardPreview"}
    \* window.rewardPreview = rewardPreview
    /\ windowRewardPreview' = ("rewardPreview" \in letInstances)
    /\ UNCHANGED <<windowAchievementNotifications, readyState, domContentLoaded, letInstances,
                   dashboardContainer, windowProgressDashboard,
                   progressVars, sharedVars, moodVars, exerciseVars, readerVars, streakVars,
                   restOfPage>>

\* the parser reaches the end of the document
ParsingEnds ==
    /\ readyState = "loading"
    /\ readyState' = "interactive"
    /\ UNCHANGED <<domContentLoaded, scriptsRun, listeners, letInstances, dashboardContainer,
                   windowProgressDashboard,
                   progressVars, windowVars, sharedVars, moodVars, exerciseVars, readerVars,
                   streakVars, restOfPage>>

\* DOMContentLoaded is dispatched: every listener added so far runs and
\* assigns its let binding
DomContentLoadedFires ==
    /\ readyState = "interactive"
    /\ ~domContentLoaded
    /\ domContentLoaded' = TRUE
    /\ letInstances' = letInstances
                          \cup (listeners \ {"progressDashboard"})
                          \cup (IF DashboardConstructed
                                THEN listeners \cap {"progressDashboard"} ELSE {})
    /\ listeners' = {}
    /\ UNCHANGED <<readyState, scriptsRun, dashboardContainer, windowProgressDashboard,
                   progressVars, windowVars, sharedVars, moodVars, exerciseVars, readerVars,
                   streakVars, restOfPage>>

\* the load event: the page and its resources are complete
PageLoadCompletes ==
    /\ readyState = "interactive"
    /\ domContentLoaded
    /\ readyState' = "complete"
    /\ UNCHANGED <<domContentLoaded, scriptsRun, listeners, letInstances, dashboardContainer,
                   windowProgressDashboard,
                   progressVars, windowVars, sharedVars, moodVars, exerciseVars, readerVars,
                   streakVars, restOfPage>>

\* a page whose load is over
InitPageLoaded ==
    /\ readyState = "complete"
    /\ domContentLoaded = TRUE
    /\ scriptsRun = PageScripts
    /\ listeners = {}
    /\ letInstances = {}
    /\ dashboardContainer = TRUE
    /\ windowProgressDashboard = FALSE

\* a time zone whose days all last 24 hours
InitStandardTime == shortDays = {}

\* the chat page and the sidebar before the first interaction
InitRestOfPage == InitUi /\ InitSidebar /\ InitPageLoaded

\* the state after construction of the objects no handler of this page touches
InitRest ==
    /\ InitJournal /\ InitAggIdle /\ InitChat /\ InitLoadIdle /\ InitNotify /\ InitStandardTime
    /\ InitRestOfPage

----------------------------------------------------------------------------
(* Specifications                                                          *)

\* Inputs of the exercise specifications
CategoryInputs == {"breathing", "mindfulness"}
TimerExerciseIds == {"478_breathing", "stretching"}
RetentionExerciseIds == {"478_breathing"}
MaxTimerCompletions == 1

\* The progress dashboard
NextProgress ==
    \/ InitialLoad
    \/ Refresh
    \/ StartAutoUpdate
    \/ StopAutoUpdate
    \/ AutoUpdateTick
    \/ HandleNavigation
    \/ HandleFeatureActivity
    \/ QuickAction
    \/ ProgressUpdateEvent
    \/ UpdateProgressFromModal
    \/ ResetProgress

\* the state after construction, for the dashboard page
PageInitProgress ==
    /\ InitProgress /\ InitWindowProgress /\ InitShared /\ InitMood /\ InitExercise
    /\ InitReaders /\ InitStreakIdle
    /\ InitRest

SpecProgress == PageInitProgress /\ [][NextProgress]_vars

\* The mood tracker over several days
NextMood ==
    \/ SelectMood
    \/ LogMood
    \/ AdvanceDay

\* the state after construction, for the mood tracker page
PageInitMood ==
    /\ InitProgress /\ InitWindow /\ InitShared /\ InitMood /\ InitExercise
    /\ InitReaders /\ InitStreakIdle
    /\ InitRest

SpecMood == PageInitMood /\ [][NextMood]_vars

\* The exercise modal and its countdown
ExerciseSelectCategory == \E category \in CategoryInputs : SelectCategory(category)

ExerciseStart == \E exerciseId \in TimerExerciseIds : StartExercise(exerciseId)

ExerciseComplete == exerciseNextId <= MaxTimerCompletions /\ CompleteExercise

ExerciseTick == \E id \in liveIntervals : exerciseNextId <= MaxTimerCompletions /\ Tick(id)

NextExercise ==
    \/ ExerciseSelectCategory
    \/ ExerciseStart
    \/ ToggleTimer
    \/ ResetTimer
    \/ ExerciseComplete
    \/ ExerciseTick
    \/ CloseExerciseModal
    \/ CloseTimeout

\* the state after construction, for the exercises page
PageInitExercise ==
    /\ InitProgress /\ InitWindowProgress /\ InitShared /\ InitMood /\ InitExercise
    /\ InitReaders /\ InitStreakIdle
    /\ InitRest

SpecExercise == PageInitExercise /\ [][NextExercise]_vars

\* One breathing exercise, started, paused, resumed and completed
SessionExerciseIds == {"478_breathing"}
MaxSessionRecords == 2

SessionStartExercise == \E exerciseId \in SessionExerciseIds : StartExercise(exerciseId)

\* the buttons of the modal can be clicked while the modal shows them
SessionToggle == modalDisplayed /\ modalBodyIntact /\ ToggleTimer

SessionReset == modalDisplayed /\ modalBodyIntact /\ ResetTimer

SessionComplete ==
    /\ modalDisplayed /\ completeBtnShown
    /\ exerciseNextId <= MaxSessionRecords
    /\ CompleteExercise

SessionTick == \E id \in liveIntervals : exerciseNextId <= MaxSessionRecords /\ Tick(id)

NextSession ==
    \/ SessionStartExercise
    \/ SessionToggle
    \/ SessionReset
    \/ SessionComplete
    \/ SessionTick
    \/ PhaseTimeout
    \/ CloseExerciseModal
    \/ CloseTimeout

\* the state after construction, for the exercises page
PageInitSession ==
    /\ InitProgress /\ InitWindowProgress /\ InitShared /\ InitMood /\ InitExercise
    /\ InitReaders /\ InitStreakIdle
    /\ InitRest

SpecSession == PageInitSession /\ [][NextSession]_vars

\* The retention caps of the mood and exercise stores
RetentionStart == \E exerciseId \in RetentionExerciseIds : StartExercise(exerciseId)

NextRetention ==
    \/ SelectMood
    \/ LogMood
    \/ RetentionStart
    \/ CompleteExercise
    \/ CloseTimeout

\* the state after construction, for the mood tracker and exercises pages
PageInitRetention ==
    /\ InitProgress /\ InitWindowProgress /\ InitShared /\ InitMood /\ InitExercise
    /\ InitReaders /\ InitStreakIdle
    /\ InitRest

SpecRetention == PageInitRetention /\ [][NextRetention]_vars

\* The journal page over several days
JournalEdit == \E entryId \in 0..MaxJournalIds : EditEntry(entryId)

JournalView == \E entryId \in 1..MaxJournalIds : ViewEntry(entryId)

JournalDelete == \E entryId \in 0..MaxJournalIds : DeleteEntry(entryId)

NextJournal ==
    \/ StartNewEntry
    \/ TypeText
    \/ JournalEdit
    \/ JournalView
    \/ SaveEntry
    \/ CancelEntry
    \/ JournalDelete
    \/ AdvanceDay

\* the state after construction, for the journal page
PageInitJournal ==
    /\ InitProgress /\ InitWindow /\ InitShared /\ InitMood /\ InitExercise
    /\ InitJournalLoaded /\ InitStreakIdle
    /\ InitRest

SpecJournal == PageInitJournal /\ [][NextJournal]_vars

\* The three activity stores on one page
MaxStoreEntries == 1   \* entries made per store

StoresStartNewEntry == journalNextId <= MaxStoreEntries /\ StartNewEntry

StoresLogMood == moodNextId <= MaxStoreEntries /\ LogMood

StoresComplete == exerciseNextId <= MaxStoreEntries /\ CompleteExercise

NextStores ==
    \/ StoresStartNewEntry
    \/ TypeText
    \/ JournalEdit
    \/ SaveEntry
    \/ JournalDelete
    \/ SelectMood
    \/ StoresLogMood
    \/ RetentionStart
    \/ StoresComplete
    \/ CloseTimeout

\* the state after construction, for the three stores
PageInitStores ==
    /\ InitProgress /\ InitWindowProgress /\ InitShared /\ InitMood /\ InitExercise
    /\ InitJournalLoaded /\ InitStreakIdle
    /\ InitRest

SpecStores == PageInitStores /\ [][NextStores]_vars

\* A page load over whatever local storage holds
InitStorage ==
    /\ uncaught = {}
    /\ achievementShown = [a \in AchievementIds |-> 0]
    /\ rewardPreviewProgress = [f \in Features |-> NoProgress]
    /\ \E kinds \in [StorageKeys -> StoredKinds] :
            localStorage = [k \in StorageKeys |-> StoredText(k, kinds[k])]
    /\ today = 0

NextStorage ==
    \/ MoodTrackerNew
    \/ JournalSystemNew
    \/ ExercisesSystemNew
    \/ ResourcesManagerNew
    \/ GetApiCallCount

\* the state after construction, for a page load
PageInitStorage ==
    /\ InitProgress /\ InitWindowProgress /\ InitStorage /\ InitMood /\ InitExercise
    /\ InitReaders /\ InitStreakIdle
    /\ InitRest

SpecStorage == PageInitStorage /\ [][NextStorage]_vars

\* The streak functions over every bounded entry list
InitStreak ==
    /\ streakDays \in NewestFirstDayLists
    /\ moodStreak = NotComputed
    /\ journalStreak = NotComputed
    /\ uncaught = {}
    /\ achievementShown = [a \in AchievementIds |-> 0]
    /\ rewardPreviewProgress = [f \in Features |-> NoProgress]
    /\ localStorage = EmptyStorage
    /\ today = MaxStreakSpan

NextStreak ==
    \/ ComputeMoodStreak
    \/ ComputeJournalStreak

\* the state after construction, for the streak functions
PageInitStreak ==
    /\ InitProgress /\ InitWindowProgress /\ InitStreak /\ InitMood /\ InitExercise
    /\ InitReaders
    /\ InitRest

SpecStreak == PageInitStreak /\ [][NextStreak]_vars

\* Bound of the days followed after the entries were made
MaxDaysPassed == 2

\* the time zones: no clock change, or one day of 23 hours
ClockChoices == {{}} \cup {{d} : d \in 0..(MaxStreakSpan + MaxDaysPassed)}

\* midnight passes with the entry list left alone
StreakDayPasses ==
    /\ today < MaxStreakSpan + MaxDaysPassed
    /\ today' = today + 1
    /\ UNCHANGED <<uncaught, achievementShown, rewardPreviewProgress, localStorage,
                   progressVars, windowVars, moodVars, exerciseVars, readerVars, streakVars,
                   restVars>>

\* an entry is stored today: unshift puts it at the front of the list
StreakLogEntry ==
    /\ Len(streakDays) <= MaxStreakEntries
    /\ streakDays' = <<today>> \o streakDays
    /\ UNCHANGED <<moodStreak, journalStreak,
                   progressVars, windowVars, sharedVars, moodVars, exerciseVars, readerVars,
                   restVars>>

NextStreakDays ==
    \/ ComputeMoodStreak
    \/ ComputeJournalStreak
    \/ StreakDayPasses
    \/ StreakLogEntry

\* the state after construction, for the streak functions as days pass
PageInitStreakDays ==
    /\ InitProgress /\ InitWindowProgress /\ InitStreak /\ InitMood /\ InitExercise
    /\ InitReaders
    /\ InitJournal /\ InitAggIdle /\ InitChat /\ InitLoadIdle /\ InitNotify /\ InitRestOfPage
    /\ shortDays \in ClockChoices

SpecStreakDays == PageInitStreakDays /\ [][NextStreakDays]_vars

\* Bounds of the stored input of the aggregates
MaxAggDays == 2
MaxAggValues == 1
AggValueInputs == {1, 2, 4}

AggDayLists == {d \in NewestFirstDayLists : Len(d) <= MaxAggDays}
AggValueLists == UNION {[1..n -> AggValueInputs] : n \in 0..MaxAggValues}

AggregatesLoadData == \E reply \in TimelineReplies : TimelineLoadData(reply)
AggregatesAddAchievement == \E isStreakMaster \in BOOLEAN : TimelineAddAchievement(isStreakMaster)

NextAggregates ==
    \/ ComputeMoodStreak
    \/ ComputeJournalStreak
    \/ ComputeAverageMood
    \/ ComputeAverageWords
    \/ ComputeConsecutiveDays
    \/ AggregatesLoadData
    \/ AggregatesAddAchievement
    \/ TimelineUpdateStats

\* stored entries and an empty timeline, nothing computed yet
InitAggregates ==
    /\ streakDays \in AggDayLists
    /\ aggValues \in AggValueLists
    /\ moodStreak = NotComputed
    /\ journalStreak = NotComputed
    /\ averageMood = <<>>
    /\ averageWords = <<>>
    /\ consecutiveDays = <<>>
    /\ timelineHasStreakMaster = FALSE
    /\ timelineStreak = <<>>
    /\ uncaught = {}
    /\ achievementShown = [a \in AchievementIds |-> 0]
    /\ rewardPreviewProgress = [f \in Features |-> NoProgress]
    /\ localStorage = EmptyStorage
    /\ today = MaxStreakSpan

PageInitAggregates ==
    /\ InitProgress /\ InitWindowProgress /\ InitAggregates /\ InitMood /\ InitExercise
    /\ InitReaders
    /\ InitJournal /\ InitChat /\ InitLoadIdle /\ InitNotify /\ InitStandardTime /\ InitRestOfPage

SpecAggregates == PageInitAggregates /\ [][NextAggregates]_vars

ChatNetworkFailure == GetChillBuddyResponse(NoReply)
ChatErrorStatus ==
    \E reply \in Replies :
        reply.arrived /\ ~ResponseOk(reply.status) /\ GetChillBuddyResponse(reply)
ChatOkStatus ==
    \E reply \in Replies :
        reply.arrived /\ ResponseOk(reply.status) /\ GetChillBuddyResponse(reply)

NextChat ==
    \/ ChatNetworkFailure
    \/ ChatErrorStatus
    \/ ChatOkStatus

PageInitChat ==
    /\ InitProgress /\ InitWindowProgress /\ InitShared /\ InitMood /\ InitExercise
    /\ InitReaders /\ InitStreakIdle
    /\ InitRest

SpecChat == PageInitChat /\ [][NextChat]_vars

LoadStart == \E c \in LoadCalls : StartLoadProgressData(c)
LoadFetchesSettle == \E c \in LoadCalls : FetchesSettle(c)
LoadProgressJsonSettles == \E c \in LoadCalls : ProgressJsonSettles(c)
LoadStatsJsonSettles == \E c \in LoadCalls : StatsJsonSettles(c)
LoadBadges == \E outcome \in BadgeOutcomes : LoadBadgeData(outcome)

NextLoad ==
    \/ LoadStart
    \/ LoadFetchesSettle
    \/ LoadProgressJsonSettles
    \/ LoadStatsJsonSettles
    \/ LoadBadges

PageInitLoad ==
    /\ InitProgress /\ InitWindowProgress /\ InitShared /\ InitMood /\ InitExercise
    /\ InitReaders /\ InitStreakIdle
    /\ InitJournal /\ InitAggIdle /\ InitChat /\ InitLoadStarted /\ InitNotify /\ InitRestOfPage
    /\ InitStandardTime

SpecLoad == PageInitLoad /\ [][NextLoad]_vars

\* Bound of the entries averaged
MaxAverageEntries == 3

AverageValueLists == UNION {[1..n -> AggValueInputs] : n \in 0..MaxAverageEntries}

NextAverage ==
    \/ ComputeAverageMood
    \/ ComputeAverageWords

\* stored entries, no average computed yet
InitAverage ==
    /\ aggValues \in AverageValueLists
    /\ averageMood = <<>>
    /\ averageWords = <<>>
    /\ consecutiveDays = <<>>
    /\ timelineHasStreakMaster = FALSE
    /\ timelineStreak = <<>>

PageInitAverage ==
    /\ InitProgress /\ InitWindowProgress /\ InitShared /\ InitMood /\ InitExercise
    /\ InitReaders /\ InitStreakIdle
    /\ InitJournal /\ InitAverage /\ InitChat /\ InitLoadIdle /\ InitNotify /\ InitRestOfPage
    /\ InitStandardTime

SpecAverage == PageInitAverage /\ [][NextAverage]_vars

NotifyHideTimeout == \E n \in hideTimers : HideTimeout(n)
NotifyAutoRemoveTimeout == \E n \in autoTimers : AutoRemoveTimeout(n)
NotifyClose == \E n \in containerNodes : CloseNotification(n)

NextNotify ==
    \/ ShowNotification
    \/ NotifyHideTimeout
    \/ NotifyAutoRemoveTimeout
    \/ NotifyClose

PageInitNotify ==
    /\ InitProgress /\ InitWindowProgress /\ InitShared /\ InitMood /\ InitExercise
    /\ InitReaders /\ InitStreakIdle
    /\ InitRest

SpecNotify == PageInitNotify /\ [][NextNotify]_vars

\* The chat page: messages are sent, answered and regenerated as days pass.
\* The page opens with any count stored for today or for the day before.
StoredUsages ==
    {[count |-> c, date |-> d] : c \in 0..DAILY_API_LIMIT, d \in {-1, 0}}

\* a new conversation is continued while it holds fewer than MaxBubbles answers
ChatPageSend ==
    /\ \/ ConversationSize < MaxBubbles
       \/ StoredCountToday >= DAILY_API_LIMIT
    /\ HandleSendMessage

ChatPageRegenerate ==
    /\ requestsToday < DAILY_API_LIMIT + MaxOverLimit
    /\ \E kind \in MessageKinds : Regenerate(kind)

NextChatPage ==
    \/ TypeMessage
    \/ ClickSuggestedPrompt
    \/ ChatPageSend
    \/ ChatPageRegenerate
    \/ HardcodedDelayFires
    \/ ChatFetchSettles
    \/ ChatDayPasses

\* the page has been loaded on day 0; the responses requested so far today are
\* those the stored count stands for
InitChatPage ==
    /\ chatInput = ""
    /\ typing = NoMessages
    /\ bubbles = NoMessages
    /\ \E usage \in StoredUsages :
          /\ localStorage = [EmptyStorage EXCEPT !["apiUsage"] = JsonStringify(usage)]
          /\ requestsToday = IF usage.date = 0 THEN usage.count ELSE 0

PageInitChatPage ==
    /\ InitProgress /\ InitWindowProgress /\ InitMood /\ InitExercise
    /\ InitReaders /\ InitStreakIdle
    /\ uncaught = {}
    /\ achievementShown = [a \in AchievementIds |-> 0]
    /\ rewardPreviewProgress = [f \in Features |-> NoProgress]
    /\ today = 0
    /\ InitJournal /\ InitAggIdle /\ InitChat /\ InitLoadIdle /\ InitNotify /\ InitStandardTime
    /\ InitChatPage /\ InitSidebar /\ InitPageLoaded

SpecChatPage == PageInitChatPage /\ [][NextChatPage]_vars

\* The chat page with the scheduling the browser guarantees: a pending
\* setTimeout fires.  Nothing makes the backend answer a fetch, and
\* getChillBuddyResponse passes fetch no signal and sets no timer, so the
\* step ChatFetchSettles carries no fairness condition.
SpecChatPageFair ==
    PageInitChatPage /\ [][NextChatPage]_vars /\ WF_vars(HardcodedDelayFires)

\* The sidebar: conversations are started, saved and reopened.  Earlier visits
\* have left a history the code itself wrote: none, a full one, or one short
\* of the cap by one.  The oldest chat is the first conversation of a visit,
\* saved under 'current'.
FullHistory ==
    [k \in 1..HistoryCap |->
        [id |-> HistoryCap - k, saved |-> HistoryCap - k + 1, content |-> HistoryCap - k + 1]]

StoredChatTexts ==
    {AbsentText, GarbageText, JsonStringify(FullHistory), JsonStringify(Tail(FullHistory))}

\* the history items a click reopens: the placeholder of the current chat,
\* the newest and the oldest stored chat
LoadChoices ==
    {CurrentId} \cup {chatHistory[i].id : i \in {1, Len(chatHistory)} \cap 1..Len(chatHistory)}

SidebarLoadChat == \E chatId \in LoadChoices : LoadChat(chatId)

NextSidebar ==
    \/ AppendMessage
    \/ SaveCurrentChatCall
    \/ CreateNewChatCall
    \/ NewChatClick
    \/ SidebarLoadChat

\* the two scripts register their click handlers in either order
InitSidebarPage ==
    /\ \E stored \in StoredChatTexts : SidebarManagerNew(stored)
    /\ nextContent = HistoryCap + 1
    /\ sidebarNow = SessionStart
    /\ headerFirst \in BOOLEAN

PageInitSidebar ==
    /\ InitProgress /\ InitWindowProgress /\ InitShared /\ InitMood /\ InitExercise
    /\ InitReaders /\ InitStreakIdle
    /\ InitJournal /\ InitAggIdle /\ InitChat /\ InitLoadIdle /\ InitNotify /\ InitStandardTime
    /\ InitUi /\ InitSidebarPage /\ InitPageLoaded

SpecSidebar == PageInitSidebar /\ [][NextSidebar]_vars

\* The page load: the three scripts run at any moment of the load, before or
\* after the end of parsing and DOMContentLoaded; an exercise is then
\* completed, which raises the 'first_exercise' achievement
PageLoadExerciseIds == {"478_breathing"}
MaxPageCompletions == 1

PageStartExercise ==
    /\ domContentLoaded
    /\ \E exerciseId \in PageLoadExerciseIds : StartExercise(exerciseId)

PageCompleteExercise ==
    /\ domContentLoaded
    /\ currentExercise # NoExercise
    /\ exerciseNextId <= MaxPageCompletions
    /\ CompleteExercise

NextPageLoad ==
    \/ RunAchievementNotificationsScript
    \/ RunProgressDashboardScript
    \/ RunRewardPreviewScript
    \/ ParsingEnds
    \/ DomContentLoadedFires
    \/ PageLoadCompletes
    \/ PageStartExercise
    \/ PageCompleteExercise
    \/ CloseTimeout

\* the document starts to load: no script has run
InitPageLoad ==
    /\ readyState = "loading"
    /\ domContentLoaded = FALSE
    /\ scriptsRun = {}
    /\ listeners = {}
    /\ letInstances = {}
    /\ dashboardContainer = TRUE
    /\ windowProgressDashboard = FALSE
    /\ windowAchievementNotifications = FALSE
    /\ windowRewardPreview = FALSE

PageInitPageLoad ==
    /\ InitProgress /\ InitShared /\ InitMood /\ InitExercise
    /\ InitReaders /\ InitStreakIdle
    /\ InitJournal /\ InitAggIdle /\ InitChat /\ InitLoadIdle /\ InitNotify /\ InitStandardTime
    /\ InitUi /\ InitSidebar /\ InitPageLoad

SpecPageLoad == PageInitPageLoad /\ [][NextPageLoad]_vars

----------------------------------------------------------------------------
(* Properties                                                              *)

\* C1: over any sequence of progress updates each badge produces exactly one
\* 'badge-earned' notification, emitted by the update on which current first
\* reaches target; later updates of the complete badge emit no other.
C1_OneBadgeEarnedPerBadge ==
    windowAchievementNotifications =>
        \A b \in Badges : badgeEarnedShown[b] = IF reachedTarget[b] THEN 1 ELSE 0

\* the number of consecutive calendar days, counting back from day, that are in daySet
RECURSIVE ConsecutiveDaysBack(_, _)
ConsecutiveDaysBack(daySet, day) ==
    IF day \in daySet THEN 1 + ConsecutiveDaysBack(daySet, day - 1) ELSE 0

DaySet(days) == {days[i] : i \in DOMAIN days}

\* C2: for the mood history and the journal entries (newest first) the
\* computed streak is the number of consecutive calendar days, counting back
\* from today, that each hold at least one entry, whatever the number of
\* entries on one day.
C2_StreakIsConsecutiveDays ==
    /\ moodStreak # NotComputed =>
          moodStreak[1] = ConsecutiveDaysBack(DaySet(streakDays), today)
    /\ journalStreak # NotComputed =>
          journalStreak[1] = ConsecutiveDaysBack(DaySet(streakDays), today)

\* C3: after any sequence of updateProgress, updateProgressFromModal,
\* simulateActivity and resetProgress calls, with any input, every progress
\* item has 0 <= current <= target.
C3_CurrentWithinTarget ==
    \A b \in DOMAIN progressData :
        /\ progressData[b].current # NaN
        /\ 0 <= progressData[b].current
        /\ progressData[b].current <= progressData[b].target

Earned(item) == item.current = item.target

\* C4 (as claimed): once a progress item has reached current = target, no
\* operation moves it back to in_progress or locked.
C4_EarnedIsTerminal ==
    [][\A b \in DOMAIN progressData \cap DOMAIN progressData' :
          Earned(progressData[b]) => Earned(progressData'[b])]_vars

\* the values an updateProgress call can be given
UpdateValues == EventProgressValues \cup {ParseInt(text) : text \in ModalTexts}

\* C4 (amended): once a progress item has reached current = target, it stays
\* there under every simulateActivity call (navigation, feature activity,
\* quick action) and under every updateProgress / modal update whose value is
\* at least the target.
C4_EarnedKeptByActivity ==
    [][\A b \in DOMAIN progressData :
          /\ Earned(progressData[b])
          /\ \/ \E amount \in {0, 1} : SimulateActivity(b, amount)
             \/ \E value \in UpdateValues :
                   JsGe(value, progressData[b].target) /\ UpdateProgress(b, value)
          => Earned(progressData'[b])]_vars

\* C4 witness: a complete badge has been through simulateActivity twice today
\* and has been notified twice, so an activity has acted on it while complete
C4_ActivityOnEarnedBadge ==
    /\ "crisis-survivor" \in DOMAIN progressData
    /\ Earned(progressData["crisis-survivor"])
    /\ TodayCount(progressData["crisis-survivor"].recentActivity) = 2
    /\ badgeEarnedShown["crisis-survivor"] = 2

\* current / target has gone down from item before to item after
FractionDecreased(before, after) ==
    JsLt(after.current * before.target, before.current * after.target)

\* C5: a badge's fraction current / target never decreases from one pass to
\* the next unless the user resets the data with resetProgress: a modal
\* update, a refresh or auto-update reload and feature activity leave it
\* equal or higher.
C5_FractionNeverDecreases ==
    [][\/ ResetProgress
       \/ \A b \in DOMAIN progressData \cap DOMAIN progressData' :
             ~FractionDecreased(progressData[b], progressData'[b])]_vars

\* C6: every logMood call made with a mood selected runs to completion: the
\* reward preview is given the new history length and the achievement check
\* runs, so first_mood is dispatched when the history gets its first entry.
C6_LogMoodRunsToCompletion ==
    /\ "logMood" \notin uncaught
    /\ Len(moodHistory) > 0 =>
          /\ windowRewardPreview =>
                rewardPreviewProgress["mood"].current = Len(moodHistory)
          /\ windowAchievementNotifications => achievementShown["first_mood"] >= 1

\* C7: once completeExercise has run, startExercise for any valid exercise
\* id still succeeds without an exception, opening the modal with
\* timeRemaining equal to the exercise's duration.
C7_StartAfterCompletionSucceeds ==
    [][\A exerciseId \in DOMAIN Exercises :
          Len(exerciseHistory) > 0 /\ StartExercise(exerciseId)
          => /\ "startExercise" \notin uncaught'
             /\ modalDisplayed'
             /\ timeRemaining' = Exercises[exerciseId].duration]_vars

\* C8: for every persisted collection, stored text that is not valid JSON is
\* treated as the empty / default state and no exception leaves the loader,
\* constructor or accessor that reads it.
C8_MalformedStorageIsEmpty ==
    /\ uncaught = {}
    /\ ("MoodTracker" \in constructed
            /\ localStorage["chillbuddy_mood_history"] = GarbageText)
          => moodHistory = <<>>
    /\ ("JournalSystem" \in constructed
            /\ localStorage["chillbuddy_journal_entries"] = GarbageText)
          => journalEntries = <<>>
    /\ ("ResourcesManager" \in constructed
            /\ localStorage["favoriteResources"] = GarbageText)
          => favoriteResources = <<>>
    /\ ("ResourcesManager" \in constructed
            /\ localStorage["resourceHistory"] = GarbageText)
          => resourceHistory = <<>>

\* C9: once pauseTimer, resetTimer, completeExercise or closeExerciseModal has
\* run, no countdown is left that could tick before startTimer is invoked
\* again, in every interleaving of the handlers.
C9_CancelledCountdownIsDead ==
    countdownCancelled => liveIntervals = {}

\* the store holds the newest entries, newest first: ids nextId - 1 downwards
HoldsNewest(history, nextId, cap) ==
    /\ Len(history) = (IF nextId - 1 < cap THEN nextId - 1 ELSE cap)
    /\ \A i \in DOMAIN history : history[i].id = nextId - i

\* C10: after any number of logMood calls the mood history holds at most 30
\* entries and after any number of completeExercise calls the exercise
\* history at most 50; the oldest entry is the one evicted, so each store
\* holds exactly the most recent entries, newest first.
C10_StoresKeepNewest ==
    /\ Len(moodHistory) <= MoodCap
    /\ HoldsNewest(moodHistory, moodNextId, MoodCap)
    /\ Len(exerciseHistory) <= ExerciseCap
    /\ HoldsNewest(exerciseHistory, exerciseNextId, ExerciseCap)

\* C10 witness: both stores have evicted an entry
C10_BothStoresEvicted ==
    /\ moodNextId - 1 > MoodCap
    /\ Len(moodHistory) = MoodCap
    /\ exerciseNextId - 1 > ExerciseCap
    /\ Len(exerciseHistory) = ExerciseCap

\* the store has only gained an entry at its front, the entries past the cap
\* dropping off its end
PrependedWithEviction(before, after, cap) ==
    /\ Len(after) >= 1
    /\ Len(after) = (IF Len(before) + 1 > cap THEN cap ELSE Len(before) + 1)
    /\ after[1].id \notin EntryIds(before)
    /\ \A i \in 2..Len(after) : after[i] = before[i - 1]

EditedInPlace(before, after) ==
    /\ Len(after) = Len(before)
    /\ \A i \in DOMAIN before : after[i].id = before[i].id /\ after[i].day = before[i].day
    /\ \E id \in EntryIds(before) :
          \A i \in DOMAIN before : before[i].id # id => after[i] = before[i]

\* the journal store has changed the way a delete does: the entries of one id gone
DeletedById(before, after) ==
    \E id \in EntryIds(before) : after = SelectSeq(before, LAMBDA e : e.id # id)

C12_AchievementDispatchedOnce ==
    \A a \in AchievementIds : achievementShown[a] <= 1

\* C13: while today holds no entry the streak does not grow as days pass; after
\* a gap one new entry logged today makes the streak exactly 1; a single entry
\* on a day that is not today gives streak 0.
C13_StreakAcrossGaps ==
    /\ [](/\ Len(streakDays) = 1
          /\ streakDays[1] # today
          => /\ CalculateStreak(streakDays, today) = 0
             /\ GetStreak(streakDays, today) = 0)
    /\ [](/\ Len(streakDays) >= 2
          /\ streakDays[1] = today
          /\ streakDays[2] < today - 1
          => /\ CalculateStreak(streakDays, today) = 1
             /\ GetStreak(streakDays, today) = 1)
    /\ [][/\ today' = today + 1
          /\ streakDays' = streakDays
          /\ today \notin DaySet(streakDays)
          => /\ CalculateStreak(streakDays, today)' <= CalculateStreak(streakDays, today)
             /\ GetStreak(streakDays, today)' <= GetStreak(streakDays, today)]_vars

\* the stored input of the aggregates and the current date
AggregateInput == <<streakDays, aggValues, today, shortDays, timelineHasStreakMaster>>

\* a result computed before and computed again is the same result
SameWhenRecomputed(before, after) ==
    before # <<>> /\ after # <<>> => after = before

\* C14: recomputing an aggregate (streak, average, timeline statistics,
\* consecutive days) on unchanged stored input and the same date gives the
\* result it gave before.
C14_RecomputeGivesSameResult ==
    [][AggregateInput' = AggregateInput
       => /\ SameWhenRecomputed(moodStreak, moodStreak')
          /\ SameWhenRecomputed(journalStreak, journalStreak')
          /\ SameWhenRecomputed(averageMood, averageMood')
          /\ SameWhenRecomputed(averageWords, averageWords')
          /\ SameWhenRecomputed(consecutiveDays, consecutiveDays')
          /\ SameWhenRecomputed(timelineStreak, timelineStreak')]_vars

\* a percentage between 0 and 100
WithinPercent(p) ==
    p.num # NaN /\ 0 <= p.num /\ p.num <= 100 * p.den

\* C15: every badge fraction the code computes lies between 0 and 1: the
\* dashboard's per-item percentage and overall completion lie between 0 and
\* 100, and the reward preview's current / total ratio between 0 and 1.
C15_FractionsWithinUnit ==
    /\ \A b \in DOMAIN progressData : WithinPercent(ItemProgress(progressData[b]))
    /\ WithinPercent([num |-> CalculateOverallCompletion(progressData), den |-> 1])
    /\ \A f \in Features :
          RewardBadgeId[f] \in BadgeMappingIds /\ rewardPreviewProgress[f] # NoProgress
          => /\ 0 <= rewardPreviewProgress[f].current
             /\ rewardPreviewProgress[f].current <= rewardPreviewProgress[f].total

\* the strings written for the user in getChillBuddyResponse
CannedMessages ==
    {AuthenticationMessage, SlowDownMessage, TechnicalDifficultiesMessage,
     CouldNotProcessMessage, CrisisMessage, RephraseMessage, ConnectingMessage}

C17_ErrorResultFromStatusOnly ==
    chatCalls > 0 /\ chatReply.arrived /\ ~ResponseOk(chatReply.status)
    => chatResult = StatusMessage(chatReply.status)

\* progressData and userStats both hold what the API answered, or both the mock data
OneSource ==
    \/ progressData = ApiProgressData /\ userStats = ApiUserStats
    \/ progressData = MockProgressData /\ userStats = MockUserStats

\* C18: when a loadProgressData() call finishes, progressData and userStats
\* are both from the API or both the mock data, never a mix; loadBadgeData
\* leaves the badge list from the API or the mock set.
C18_LoadLeavesOneSource ==
    /\ [][\A c \in LoadCalls :
             loadPc[c] # "done" /\ loadPc'[c] = "done" => OneSource']_vars
    /\ [](galleryBadges \in {"none", "api", "mock"})

\* the quotient q is the arithmetic mean of the values
IsMean(q, values) ==
    q.num * Len(values) = SumOf(values) * q.den

\* C19 as stated: each average is the arithmetic mean of the field over the
\* entries, and 0 when there are none.
C19_AverageIsMean ==
    /\ averageMood # <<>>
       => IF Len(aggValues) = 0
          THEN averageMood[1] = ZeroQuotient
          ELSE IsMean(averageMood[1], aggValues)
    /\ averageWords # <<>>
       => IF Len(aggValues) = 0
          THEN averageWords[1] = 0
          ELSE IsMean(Quotient(averageWords[1], 1), aggValues)

\* the integer r is the mean of the values rounded to the nearest integer,
\* a half going up: r - 1/2 <= mean < r + 1/2
IsRoundedMean(r, values) ==
    /\ (2 * r - 1) * Len(values) <= 2 * SumOf(values)
    /\ 2 * SumOf(values) < (2 * r + 1) * Len(values)

\* C19 (amended): the mood average is the arithmetic mean of the mood values;
\* the journal's average is the mean word count rounded to the nearest
\* integer; both are 0 when there are no entries.
C19_MeanAndRoundedMean ==
    /\ averageMood # <<>>
       => IF Len(aggValues) = 0
          THEN averageMood[1] = ZeroQuotient
          ELSE IsMean(averageMood[1], aggValues)
    /\ averageWords # <<>>
       => IF Len(aggValues) = 0
          THEN averageWords[1] = 0
          ELSE IsRoundedMean(averageWords[1], aggValues)

\* both averages computed over entries whose mean is not an integer
C19_FractionalMeanAveraged ==
    /\ Len(aggValues) > 0
    /\ SumOf(aggValues) % Len(aggValues) # 0
    /\ averageMood # <<>>
    /\ averageWords # <<>>

\* C20: at every moment, a burst of showNotification calls included, the
\* notification system holds at most maxNotifications (3) notifications in
\* its list and in its container.
C20_AtMostMaxNotifications ==
    /\ Len(notifications) <= MaxNotificationsOption
    /\ Cardinality(containerNodes) <= MaxNotificationsOption

\* C21: within one calendar day no more than DAILY_API_LIMIT bot responses are
\* requested, by whatever button, and the stored count never exceeds the limit
C21_DailyLimitOnResponses ==
    /\ requestsToday <= DAILY_API_LIMIT
    /\ StoredCountToday <= DAILY_API_LIMIT

\* the part of C21 the code keeps: the stored count never exceeds the limit
C21_StoredCountWithinLimit == StoredCountToday <= DAILY_API_LIMIT

\* C25: every typing indicator added by showBotResponse is eventually
\* removed, even if the backend never answers
C25_IndicatorEventuallyRemoved ==
    \A kind \in MessageKinds : (typing[kind] > 0) ~> (typing[kind] = 0)

\* the part of C25 the code keeps: the indicator of a hardcoded response goes
\* when its delay has passed
C25_HardcodedIndicatorRemoved == (typing["prompt"] > 0) ~> (typing["prompt"] = 0)

\* C22: a click on New Chat while the conversation has messages saves that
\* conversation to the chat history, whichever handler runs first
C22_NewChatSavesConversation ==
    (lastCall.op = "newChatClick" /\ lastCall.content # NoContent) =>
        \E i \in 1..Len(chatHistory) :
            /\ chatHistory[i].id = lastCall.id
            /\ chatHistory[i].content = lastCall.content

\* the part of C22 the code keeps: the conversation is saved when
\* SidebarManager's handler runs before the header's
C22_SavedWhenSidebarFirst == headerFirst \/ C22_NewChatSavesConversation

\* C27: the chat history holds at most HistoryCap chats, no two with the same
\* id, the most recently saved first
C27_HistoryCappedUniqueNewestFirst ==
    /\ Len(chatHistory) <= HistoryCap
    /\ \A i, j \in 1..Len(chatHistory) :
          i < j => /\ chatHistory[i].id # chatHistory[j].id
                   /\ chatHistory[i].saved > chatHistory[j].saved

\* a full history whose newest chat was saved on this visit, a chat of the
\* earlier visits having left it
C27_FullHistoryResaved ==
    /\ Len(chatHistory) = HistoryCap
    /\ chatHistory[1].saved >= SessionStart
    /\ \E k \in 1..HistoryCap : FullHistory[k].id \notin ChatIds(chatHistory)

\* C28: loadChat called with the id of a stored chat makes that chat's
\* messages the displayed conversation and its id the current id, the chat
\* saved under 'current' included
C28_StoredChatReopens ==
    (lastCall.op = "loadChat" /\ lastCall.content # NoContent) =>
        /\ displayed = lastCall.content
        /\ currentChatId = lastCall.id

\* C28 for the chats stored under an id other than 'current'
C28_ReopensUnlessCurrent == lastCall.id = CurrentId \/ C28_StoredChatReopens

\* C23: an exercise session, from startExercise until its modal closes, adds
\* at most one completion record to exerciseHistory
C23_OneRecordPerSession == sessionRecords <= 1

\* the delay of completeExercise's setTimeout(closeExerciseModal, 3000), in
\* ticks of the countdown
CloseDelayTicks == 3

\* C23 for the ticks that arrive before the modal closes: no session has two
\* records whose practised times differ by less than the close delay
C23_NoSecondRecordWithinDelay ==
    sessionRecords >= 2 =>
        exerciseHistory[1].duration - exerciseHistory[2].duration >= CloseDelayTicks

\* C24: at most one breathing-phase callback chain is pending at a time
C24_OneBreathingChain == phaseTimeouts <= 1

\* C26: once DOMContentLoaded has fired and the scripts have run, the globals
\* window.achievementNotifications, window.rewardPreview and
\* window.progressDashboard are the constructed instances, whatever the
\* readyState was when the scripts ran, and the achievement of a completed
\* exercise reaches the notification system
C26_GlobalsAreInstances ==
    (domContentLoaded /\ scriptsRun = PageScripts) =>
        /\ windowAchievementNotifications
        /\ windowRewardPreview
        /\ windowProgressDashboard
        /\ exerciseHistory # <<>> => achievementShown["first_exercise"] >= 1

\* the part of C26 the code keeps: the instances are constructed
C26_InstancesConstructed ==
    (domContentLoaded /\ scriptsRun = PageScripts /\ listeners = {}) =>
        letInstances = {"achievementNotifications", "progressDashboard", "rewardPreview"}

====
